---- MODULE Spec2Model ----
(***************************************************************************)
(* Docker CC container pool: the pool manager (pool-manager.ts), its       *)
(* durable registry (registry.ts), the container runtime (container.ts),   *)
(* the host side broker client (redis-client.ts), the runner (runner.ts)   *)
(* and the in-container wrapper (the container-wrapper directory).         *)
(*                                                                         *)
(* Every async function is cut at its awaits: one action is the code that  *)
(* runs from the completion of one awaited I/O operation to the start of   *)
(* the next one.  A registry function (one readRegistry followed by one    *)
(* writeRegistry) is one step, taken when the document is written.         *)
(***************************************************************************)
EXTENDS Integers, Sequences, FiniteSets, TLC

\* ------------------------------------------------------------------ bounds

NumSessions == 2        \* caller session keys s1..sN
MaxWarmKeys == 2        \* synthetic warm-only session keys that may be drawn
MaxOps == 6             \* operations and environment events started in one run
MaxRaceOps == 4         \* the same, where operations interleave
MaxRunOps == 5          \* the same, where run calls are served
MaxRunSessions == 1     \* session keys that call run
MaxClock == 3           \* clock readings after the first one
MaxRegProcs == 2      \* registry mutations that may be in flight together
MaxRegOps == 3        \* registry mutations and clock ticks in a run of RegSpec
MaxFaultOps == 5      \* operations and registry failures in a run of FaultSpec
MaxLiveOps == 5       \* calls, ticks and lost containers in a run of LiveSpec
MaxLen == 5           \* characters of a stream drawn from every string
MaxRecords == 2       \* records of a stream composed of records and noise
MaxResets == 1        \* reset() calls on one parser
MaxOutputs == 2        \* messages in the stream of one wrapper
MaxOutOps == 4         \* start and run calls in a run of OutSpec
MaxSyncOps == 3        \* start and stop calls in a run of SyncSpec
MaxShutOps == 4        \* start, getContainer and shutdown calls in a run of ShutSpec
MaxBootOps == 4        \* initialize, stop and shutdown calls in a run of BootSpec
MaxBeatOps == 5        \* calls and clock ticks in a run of BeatSpec
MaxPairOutputs == 2    \* output records the wrapper publishes in a run of PairSpec
MaxCheckClock == 4     \* milliseconds that pass in a run of CheckSpec
MaxBackground == 1      \* background warm-pool top-ups in flight at once

\* --------------------------------------------------------------- constants

Null == "null"
Undefined == "undefined"

\* checkHealth: healthIntervalMs * 6 missed heartbeats
StaleFactor == 6

\* The clock is read at multiples of TickMs; the timeouts of DockerCCPoolConfig
\* are scaled to it (stale after one tick, idle after two, expired after three).
TickMs == 10
Timeouts == [idleMs |-> 15, maxAgeMs |-> 25, healthIntervalMs |-> 1]

ContainerPrefix == "clawdbot-cc-"
DefaultKeyPrefix == "clawdbot:cc:"
WrapperKeyPrefix == "session:"

Sessions == {"s" \o ToString(i) : i \in 1..NumSessions}
WarmKey(i) == "warm-" \o ToString(i)
WarmKeys == {WarmKey(i) : i \in 1..MaxWarmKeys}
AllKeys == Sessions \cup WarmKeys
AgentIds == {"a1"}
RunSessions == {"s" \o ToString(i) : i \in 1..MaxRunSessions}

\* generateContainerName: prefix + slug of the session key.
generateContainerName(sessionKey) == ContainerPrefix \o sessionKey
Names == {generateContainerName(k) : k \in AllKeys}

Min(a, b) == IF a < b THEN a ELSE b
Max(a, b) == IF a > b THEN a ELSE b

\* ---------------------------------------------------------------- registry
\* The registry document is the array `entries`; every function below is the
\* body of the registry.ts function of the same name, applied to the array.

FindIndex(entries, name) ==
  IF \E i \in 1..Len(entries) : entries[i].containerName = name
  THEN CHOOSE i \in 1..Len(entries) :
         /\ entries[i].containerName = name
         /\ \A j \in 1..(i - 1) : entries[j].containerName # name
  ELSE 0

HasEntry(entries, name) == FindIndex(entries, name) # 0

updateContainerEntry(entries, entry) ==
  LET i == FindIndex(entries, entry.containerName)
  IN IF i > 0 THEN [entries EXCEPT ![i] = entry] ELSE Append(entries, entry)

\* removeContainerEntry without its filter: the named entry stays.
removeContainerEntryKeepsEntry(entries, name) == entries

KeepName(e, name) == e.containerName # name
removeContainerEntry(entries, name) ==
  LET Keep(e) == KeepName(e, name) IN SelectSeq(entries, Keep)

FirstOr(seq, default) == IF Len(seq) > 0 THEN seq[1] ELSE default

NoEntry == [containerName |-> Null]

getContainerBySessionKey(entries, sessionKey) ==
  LET Match(e) == e.sessionKey = sessionKey
  IN FirstOr(SelectSeq(entries, Match), NoEntry)

\* listContainersByAgent, were it to find no entry of any agent.
listContainersByAgentNone(entries, agentId) == <<>>

listContainersByAgent(entries, agentId) ==
  LET Match(e) == e.agentId = agentId IN SelectSeq(entries, Match)

listWarmContainers(entries) ==
  LET Match(e) == e.sessionKey = Null /\ e.status = "idle"
  IN SelectSeq(entries, Match)

\* The functions below mutate the first entry of the name, when there is one.
updateContainerStatus(entries, name, status, now) ==
  LET i == FindIndex(entries, name)
  IN IF i = 0 THEN entries
     ELSE [entries EXCEPT ![i].status = status, ![i].lastHeartbeat = now]

\* updateContainerHeartbeat's optional turnCount argument, when it is not given.
NoTurnCount == 0 - 1

updateContainerHeartbeat(entries, name, claudeSessionId, turnCount, now) ==
  LET i == FindIndex(entries, name)
  IN IF i = 0 THEN entries
     ELSE [entries EXCEPT
             ![i].lastHeartbeat = now,
             ![i].claudeSessionId =
                IF claudeSessionId # Undefined THEN claudeSessionId ELSE @,
             ![i].turnCount = IF turnCount # NoTurnCount THEN turnCount ELSE @]

assignContainerToSession(entries, name, sessionKey, agentId, now) ==
  LET i == FindIndex(entries, name)
  IN IF i = 0 THEN entries
     ELSE [entries EXCEPT ![i].sessionKey = sessionKey, ![i].agentId = agentId,
                          ![i].lastHeartbeat = now]

\* unassignContainer, were it to leave the session key in place.
unassignContainerKeepsSession(entries, name, now) ==
  LET i == FindIndex(entries, name)
  IN IF i = 0 THEN entries
     ELSE [entries EXCEPT ![i].agentId = Undefined,
                          ![i].claudeSessionId = Undefined, ![i].turnCount = 0,
                          ![i].status = "idle", ![i].lastHeartbeat = now]

\* unassignContainer, were it to leave the turn count and the Claude session
\* id of the session that held the container.
unassignContainerKeepsTurns(entries, name, now) ==
  LET i == FindIndex(entries, name)
  IN IF i = 0 THEN entries
     ELSE [entries EXCEPT ![i].sessionKey = Null, ![i].agentId = Undefined,
                          ![i].status = "idle", ![i].lastHeartbeat = now]

unassignContainer(entries, name, now) ==
  LET i == FindIndex(entries, name)
  IN IF i = 0 THEN entries
     ELSE [entries EXCEPT ![i].sessionKey = Null, ![i].agentId = Undefined,
                          ![i].claudeSessionId = Undefined, ![i].turnCount = 0,
                          ![i].status = "idle", ![i].lastHeartbeat = now]

\* getIdleContainers without the heartbeat test: every idle entry.
getIdleContainersAnyAge(entries, idleTimeoutMs, now) ==
  LET Match(e) == e.status = "idle" IN SelectSeq(entries, Match)

getIdleContainers(entries, idleTimeoutMs, now) ==
  LET Match(e) == e.status = "idle" /\ now - e.lastHeartbeat > idleTimeoutMs
  IN SelectSeq(entries, Match)

\* getExpiredContainers, were it to spare the containers assigned to a session.
getExpiredContainersUnassigned(entries, maxAgeMs, now) ==
  LET Match(e) == now - e.createdAt > maxAgeMs /\ e.sessionKey = Null
  IN SelectSeq(entries, Match)

getExpiredContainers(entries, maxAgeMs, now) ==
  LET Match(e) == now - e.createdAt > maxAgeMs IN SelectSeq(entries, Match)

getStaleContainers(entries, staleThresholdMs, now) ==
  LET Match(e) == /\ e.status \in {"running", "idle"}
                  /\ now - e.lastHeartbeat > staleThresholdMs
  IN SelectSeq(entries, Match)

\* syncWithDocker, were it to keep the entries of the missing containers and
\* drop those of the existing ones.
syncWithDockerKeepsMissing(entries, existingContainerNames) ==
  LET Keep(e) == e.containerName \notin existingContainerNames
      Drop(e) == e.containerName \in existingContainerNames
      Name(s) == [i \in 1..Len(s) |-> s[i].containerName]
  IN [entries |-> SelectSeq(entries, Keep),
      removed |-> Name(SelectSeq(entries, Drop))]

syncWithDocker(entries, existingContainerNames) ==
  LET Keep(e) == e.containerName \in existingContainerNames
      Drop(e) == e.containerName \notin existingContainerNames
      Name(s) == [i \in 1..Len(s) |-> s[i].containerName]
  IN [entries |-> SelectSeq(entries, Keep),
      removed |-> Name(SelectSeq(entries, Drop))]

\* Array.prototype.sort((a, b) => a.lastHeartbeat - b.lastHeartbeat): stable.
RECURSIVE InsertByHeartbeat(_, _)
InsertByHeartbeat(sorted, e) ==
  IF sorted = <<>> THEN <<e>>
  ELSE IF e.lastHeartbeat < sorted[1].lastHeartbeat THEN <<e>> \o sorted
  ELSE <<sorted[1]>> \o InsertByHeartbeat(Tail(sorted), e)

RECURSIVE SortByHeartbeat(_)
SortByHeartbeat(entries) ==
  IF entries = <<>> THEN <<>>
  ELSE InsertByHeartbeat(SortByHeartbeat(SubSeq(entries, 1, Len(entries) - 1)),
                         entries[Len(entries)])

\* Array.prototype.slice(start)
Slice(seq, start) ==
  IF start >= Len(seq) THEN <<>> ELSE SubSeq(seq, start + 1, Len(seq))

\* ------------------------------------------------------------------- state

VARIABLES
  config,      \* DockerCCPoolConfig: pool caps and the broker key prefix
  sched,       \* "interleaved": operations overlap; "sequential": one at a time
  now,         \* Date.now()
  opsLeft,     \* operations and environment events that may still start
  isRunning,   \* DockerCCPoolManager.isRunning
  state,       \* DockerCCPoolManager.state: containers, sessionToContainer, warmPool
  registry,    \* the registry document's entries array
  docker,      \* the container runtime: name -> "absent" | "running" | "exited"
  nextWarm,    \* warm-only session keys drawn so far
  gc,          \* getContainer calls in flight, one per session key
  gcRes,       \* what the last getContainer call of each session returned or threw
  rel,         \* releaseContainer calls in flight, one per session key
  health,      \* the health tick in flight
  maint,       \* the maintenance tick in flight
  starter,     \* start() in flight
  topup        \* ensureWarmPool loops in flight, by owner

poolVars == <<config, sched, now, opsLeft, isRunning, state, registry, docker,
              nextWarm, gc, gcRes, rel, health, maint, starter, topup>>

VARIABLES
  brokerInput,    \* the broker's input lists, by session key prefix + key
  brokerResult,   \* the broker's stored result records, by the same
  brokerState,    \* the status field of the broker's state hashes, by the same
  subscriptions,  \* DockerCCRedisClient.subscriptions: the subscribed session keys
  wrap,           \* the wrapper process of each container
  run,            \* DockerCCRunner.run calls in flight, one per session key
  runRes,         \* what the last run call of each session returned or threw
  nextInput       \* input records pushed so far; each carries its number

runVars == <<brokerInput, brokerResult, brokerState, subscriptions, wrap, run,
             runRes, nextInput>>

\* The broker's record of the channels the host's subscriber connection is
\* subscribed to.
VARIABLES subscriberChannels

\* The broker's interrupt_queue list of each key.
VARIABLES interruptQueue

\* The registry mutations in flight, each between its readRegistry and its
\* writeRegistry, and what the finished ones did.
VARIABLES regOp, regHist

regVars == <<regOp, regHist>>

\* The in-memory state at the start of each session's getContainer or
\* releaseContainer call, and what a call that threw left behind.
VARIABLES callState, fault

faultVars == <<callState, fault>>

\* One StreamParser and the stream it is fed in chunks: the stream's text, the
\* pieces (records and noise) it was composed of, the characters fed so far,
\* the feed calls that fed them, the parser's fields, the records its feed
\* calls returned, and the reset() calls made.
VARIABLES stream, pieces, fed, chunks, parser, emitted, resets

parseVars == <<stream, pieces, fed, chunks, parser, emitted, resets>>

\* The output records on their way to the runner's callback: the messages
\* each wrapper's runPrompt loop has taken from its parser (by the wrapper's
\* broker key, in the order taken), the messages the broker has sent to the
\* host's subscriber connection and that connection has not handled yet, and
\* the records each session's onOutput callback was invoked with.
VARIABLES streamed, inbound, delivered

outVars == <<streamed, inbound, delivered>>

\* One DockerCCRunner being initialized: the initialize calls in flight,
\* DockerCCRunner.isInitialized, DockerCCRedisClient.isConnected with its
\* client and subscriber fields and the connections opened, and the pool
\* manager's two interval handles with the intervals that are set, and
\* whether a shutdown call is in flight.
VARIABLES boot, isInitialized, isConnected, redis, intervals, closing

bootVars == <<boot, isInitialized, isConnected, redis, intervals, closing>>

\* The pool manager's shutdown call in flight: its position, the containers
\* its loop over state.containers has visited and the one it is destroying.
VARIABLES shut

\* The broker's state hash at the key the host reads for each session, whether
\* the health monitor has been given a Redis client, and what checkContainer
\* last returned for each session.
VARIABLES stateHash, monitorClient, checked

\* The run calls made on one session key with an onOutput callback: each
\* call's position and the records its callback was invoked with; and, by
\* session key, the call whose callback the subscriptions Map holds (0: the
\* Map has no entry for the key).
VARIABLES pair, outputCallback

sideVars == <<stateHash, monitorClient, checked, pair, outputCallback>>

hostVars == <<outVars, bootVars, shut, sideVars>>

auxVars == <<subscriberChannels, interruptQueue, regOp, regHist, callState,
             fault, parseVars, hostVars>>

vars == <<poolVars, runVars, auxVars>>

\* ------------------------------------------------------- in-memory PoolState

EmptyMap == [n \in {} |-> Null]
MapSet(f, k, v) == [n \in DOMAIN f \cup {k} |-> IF n = k THEN v ELSE f[n]]
MapDelete(f, k) == [n \in DOMAIN f \ {k} |-> f[n]]
MapHas(f, k) == k \in DOMAIN f

EmptyState == [containers |-> EmptyMap, sessionToContainer |-> EmptyMap,
               warmPool |-> {}]

\* A 32-bit integer in two's complement, as its high and low 16 bits.
\* simpleHash's step `(hash << 5) - hash + char`, then `hash & hash`: 31 times
\* the hash plus the character code, kept to 32 bits.
HashStep(hash, char) ==
  LET lo == hash[2] * 31 + char
  IN <<(hash[1] * 31 + (lo \div 65536)) % 65536, lo % 65536>>

RECURSIVE HashFrom(_, _)
HashFrom(hash, codes) ==
  IF codes = <<>> THEN hash
  ELSE HashFrom(HashStep(hash, Head(codes)), Tail(codes))

\* Math.abs of a 32-bit integer: a negative one is negated.
Abs32(hash) ==
  IF hash[1] < 32768 THEN hash
  ELSE <<65535 - hash[1] + (IF hash[2] = 0 THEN 1 ELSE 0),
         (65536 - hash[2]) % 65536>>

\* simpleHash: the 32-bit rolling hash of a string's character codes.
simpleHash(codes) == Abs32(HashFrom(<<0, 0>>, codes))

\* Number.prototype.toString(16)
HexDigits == <<"0", "1", "2", "3", "4", "5", "6", "7", "8", "9", "a", "b", "c",
               "d", "e", "f">>
RECURSIVE ToHex(_)
ToHex(n) ==
  IF n < 16 THEN HexDigits[n + 1]
  ELSE ToHex(n \div 16) \o HexDigits[(n % 16) + 1]

\* The four hexadecimal digits of 16 bits.
Hex4(n) ==
  HexDigits[(n \div 4096) + 1] \o HexDigits[((n \div 256) % 16) + 1]
    \o HexDigits[((n \div 16) % 16) + 1] \o HexDigits[(n % 16) + 1]

ToHex32(hash) ==
  IF hash[1] = 0 THEN ToHex(hash[2]) ELSE ToHex(hash[1]) \o Hex4(hash[2])

\* JSON.stringify of the fields of the configuration that count for drift
\* (image, resources, docker), cut down to an image field: {"image":"i"}.
SignificantJson == <<123, 34, 105, 109, 97, 103, 101, 34, 58, 34, 105, 34, 125>>

\* generateConfigHash: the fingerprint of the current configuration.
generateConfigHash(c) == ToHex32(simpleHash(SignificantJson))

\* A ContainerRegistryEntry as getContainer and createWarmContainer build it.
NewEntry(name, sessionKey, agentId, t) ==
  [containerName |-> name, sessionKey |-> sessionKey, agentId |-> agentId,
   status |-> "idle", createdAt |-> t, lastHeartbeat |-> t, turnCount |-> 0,
   claudeSessionId |-> Undefined, configHash |-> ""]

\* removeContainerByName, were it to leave the session's mapping in place.
removeContainerByNameKeepsSession(st, name) ==
  [containers |-> MapDelete(st.containers, name),
   sessionToContainer |-> st.sessionToContainer,
   warmPool |-> st.warmPool \ {name}]

\* removeContainerByName up to its first await.
removeContainerByNameSync(st, name) ==
  LET hasEntry == MapHas(st.containers, name)
      sk == IF hasEntry THEN st.containers[name].sessionKey ELSE Null
  IN [containers |-> MapDelete(st.containers, name),
      sessionToContainer |->
        IF sk # Null THEN MapDelete(st.sessionToContainer, sk)
        ELSE st.sessionToContainer,
      warmPool |-> st.warmPool \ {name}]

\* syncState: the rebuild of the in-memory maps from the registry entries.
RECURSIVE rebuildState(_, _)
rebuildState(st, entries) ==
  IF entries = <<>> THEN st
  ELSE LET e == entries[1]
           st1 == [st EXCEPT !.containers = MapSet(@, e.containerName, e)]
           st2 == IF e.sessionKey # Null
                  THEN [st1 EXCEPT !.sessionToContainer =
                                      MapSet(@, e.sessionKey, e.containerName)]
                  ELSE IF e.status = "idle"
                  THEN [st1 EXCEPT !.warmPool = @ \cup {e.containerName}]
                  ELSE st1
       IN rebuildState(st2, Tail(entries))

\* ensureWarmPool's count, were it not clamped to what maxTotal leaves.
ensureWarmPoolUnclamped(st) ==
  Max(0, config.pool.minWarm - Cardinality(st.warmPool))

\* ensureWarmPool up to its loop: how many warm containers it will create.
ensureWarmPoolCount(st) ==
  LET needed == config.pool.minWarm - Cardinality(st.warmPool)
      currentTotal == Cardinality(DOMAIN st.containers)
  IN IF needed <= 0 THEN 0
     ELSE Max(0, Min(needed, config.pool.maxTotal - currentTotal))

\* getStats with total counting the containers outside the warm pool only.
getStatsWithoutWarm(st) ==
  [total |-> Cardinality(DOMAIN st.containers \ st.warmPool),
   active |-> Cardinality(DOMAIN st.sessionToContainer),
   warm |-> Cardinality(st.warmPool),
   maxTotal |-> config.pool.maxTotal,
   maxPerAgent |-> config.pool.maxPerAgent]

getStats(st) ==
  [total |-> Cardinality(DOMAIN st.containers),
   active |-> Cardinality(DOMAIN st.sessionToContainer),
   warm |-> Cardinality(st.warmPool),
   maxTotal |-> config.pool.maxTotal,
   maxPerAgent |-> config.pool.maxPerAgent]

\* --------------------------------------------------------------- processes

GcIdle == [pc |-> "idle", agentId |-> Undefined, entry |-> NoEntry, raced |-> FALSE]
RelIdle == [pc |-> "idle", containerName |-> Null, returnToPool |-> FALSE]
HealthIdle == [pc |-> "idle", list |-> <<>>]
MaintIdle == [pc |-> "idle", list |-> <<>>, phase |-> "idle"]
StarterIdle == [pc |-> "idle", dockerNames |-> {}]
TopupIdle == [pc |-> "idle", remaining |-> 0, key |-> Null, t |-> 0]

NoResult == [kind |-> "none", containerName |-> Null, isNew |-> FALSE,
             wasWarm |-> FALSE, agentId |-> Undefined, raced |-> FALSE]

Background == {"bg" \o ToString(i) : i \in 1..MaxBackground}
Owners == {"maint", "start"} \cup Background

GcBusy == {s \in Sessions : gc[s].pc # "idle"}
TopupBusy == {o \in Owners : topup[o].pc # "idle"}

AllIdle ==
  /\ GcBusy = {}
  /\ \A s \in Sessions : rel[s].pc = "idle"
  /\ health.pc = "idle"
  /\ maint.pc = "idle"
  /\ starter.pc = "idle"
  /\ TopupBusy = {}

\* An operation may start: any time when operations interleave, and only
\* between operations when they run one at a time.
CanStart == opsLeft > 0 /\ (sched = "interleaved" \/ AllIdle)

\* ------------------------------------------------------- container runtime

\* createAndStartContainer: docker create --name fails when the name is taken.
CanCreate(name) == docker[name] = "absent"
createAndStartContainer(name) == [docker EXCEPT ![name] = "running"]

\* stopContainer then removeContainer (force, failures allowed).
stopAndRemoveContainer(name) == [docker EXCEPT ![name] = "absent"]

\* getContainerState
getContainerState(name) ==
  [exists |-> docker[name] # "absent", running |-> docker[name] = "running"]

\* listContainers: docker ps -a filtered on the discriminator label.
listContainers == {n \in Names : docker[n] # "absent"}

\* ------------------------------------------------------- ensureWarmPool

\* createWarmContainer draws a fresh key warm-<Date.now()>-<random>.
NextWarmTask(n) ==
  [pc |-> "create", remaining |-> n, key |-> WarmKey(nextWarm + 1), t |-> 0]

\* ensureWarmPool called by owner o in in-memory state st, up to the first
\* await of its first createWarmContainer.
BeginTopup(o, st) ==
  IF ensureWarmPoolCount(st) > 0
  THEN /\ nextWarm < MaxWarmKeys
       /\ topup[o].pc = "idle"
       /\ nextWarm' = nextWarm + 1
       /\ topup' = [topup EXCEPT ![o] = NextWarmTask(ensureWarmPoolCount(st))]
  ELSE /\ nextWarm' = nextWarm
       /\ topup' = topup

\* void this.ensureWarmPool(): the top-up runs in the background.
BeginBackgroundTopup(st) ==
  LET free == {o \in Background : topup[o].pc = "idle"}
  IN IF ensureWarmPoolCount(st) > 0
     THEN /\ free # {}
          /\ BeginTopup(CHOOSE o \in free : TRUE, st)
     ELSE /\ nextWarm' = nextWarm
          /\ topup' = topup

\* The caller that awaits ensureWarmPool resumes when the loop has ended.
FinishOwner(o) ==
  /\ maint' = IF o = "maint" THEN MaintIdle ELSE maint
  /\ starter' = IF o = "start" THEN StarterIdle ELSE starter

\* createWarmContainer: await createAndStartContainer(options)
TopupCreate(o) ==
  /\ topup[o].pc = "create"
  /\ CanCreate(generateContainerName(topup[o].key))
  /\ docker' = createAndStartContainer(generateContainerName(topup[o].key))
  /\ topup' = [topup EXCEPT ![o].pc = "register", ![o].t = now]
  /\ UNCHANGED <<auxVars, runVars, config, sched, now, opsLeft, isRunning, state, registry,
                 nextWarm, gc, gcRes, rel, health, maint, starter>>

\* createWarmContainer: await updateContainerEntry(entry), the two in-memory
\* insertions, and the next round of the loop of ensureWarmPool.
TopupRegister(o) ==
  LET name == generateContainerName(topup[o].key)
      entry == NewEntry(name, Null, Undefined, topup[o].t)
  IN /\ topup[o].pc = "register"
     /\ registry' = updateContainerEntry(registry, entry)
     /\ state' = [state EXCEPT !.containers = MapSet(@, name, entry),
                               !.warmPool = @ \cup {name}]
     /\ IF topup[o].remaining > 1
        THEN /\ nextWarm < MaxWarmKeys
             /\ nextWarm' = nextWarm + 1
             /\ topup' = [topup EXCEPT ![o] = NextWarmTask(topup[o].remaining - 1)]
             /\ UNCHANGED <<maint, starter>>
        ELSE /\ nextWarm' = nextWarm
             /\ topup' = [topup EXCEPT ![o] = TopupIdle]
             /\ FinishOwner(o)
     /\ UNCHANGED <<auxVars, runVars, config, sched, now, opsLeft, isRunning, docker, gc, gcRes,
                    rel, health>>

\* ----------------------------------------------------------- getContainer

GcResult(s, kind, name, isNew, wasWarm) ==
  [kind |-> kind, containerName |-> name, isNew |-> isNew, wasWarm |-> wasWarm,
   agentId |-> gc[s].agentId, raced |-> gc[s].raced]

GcReturn(s, res) ==
  /\ gc' = [gc EXCEPT ![s] = GcIdle]
  /\ gcRes' = [gcRes EXCEPT ![s] = res]

GcGoto(s, pc) ==
  /\ gc' = [gc EXCEPT ![s].pc = pc]
  /\ gcRes' = gcRes

\* getContainer, lines 124-139: the in-memory session map, then the call of
\* getContainerBySessionKey.
GetContainerBegin(s, agentId) ==
  LET existingName == IF MapHas(state.sessionToContainer, s)
                      THEN state.sessionToContainer[s] ELSE Null
      others == GcBusy \ {s}
      call == [pc |-> "lookup", agentId |-> agentId, entry |-> NoEntry,
               raced |-> others # {}]
  IN /\ CanStart
     /\ gc[s].pc = "idle"
     /\ opsLeft' = opsLeft - 1
     /\ IF existingName # Null /\ MapHas(state.containers, existingName)
        THEN /\ gc' = gc
             /\ gcRes' = [gcRes EXCEPT ![s] =
                  [kind |-> "assigned", containerName |-> existingName,
                   isNew |-> FALSE, wasWarm |-> FALSE, agentId |-> agentId,
                   raced |-> FALSE]]
        ELSE /\ gc' = [t \in Sessions |->
                         IF t = s THEN call
                         ELSE IF gc[t].pc # "idle"
                         THEN [gc[t] EXCEPT !.raced = TRUE] ELSE gc[t]]
             /\ gcRes' = [gcRes EXCEPT ![s] = NoResult]
     /\ UNCHANGED <<config, sched, now, isRunning, state, registry, docker,
                    nextWarm, rel, health, maint, starter, topup>>

\* getContainer called on the pool manager directly.
GetContainerCall(s, agentId) ==
  /\ GetContainerBegin(s, agentId)
  /\ UNCHANGED <<auxVars, runVars>>

\* lines 139-141: the registry's record of the session.
GetContainerLookup(s) ==
  LET registryEntry == getContainerBySessionKey(registry, s)
  IN /\ gc[s].pc = "lookup"
     /\ IF registryEntry.containerName # Null
        THEN gc' = [gc EXCEPT ![s].pc = "inspect", ![s].entry = registryEntry]
        ELSE gc' = [gc EXCEPT ![s].pc = "limitAgent"]
     /\ UNCHANGED <<auxVars, runVars, config, sched, now, opsLeft, isRunning, state, registry,
                    docker, nextWarm, gcRes, rel, health, maint, starter, topup>>

\* lines 141-152: adopt the registry's container when the runtime runs it.
GetContainerInspect(s) ==
  LET registryEntry == gc[s].entry
      st == getContainerState(registryEntry.containerName)
  IN /\ gc[s].pc = "inspect"
     /\ IF st.exists /\ st.running
        THEN /\ state' = [state EXCEPT
                  !.containers = MapSet(@, registryEntry.containerName, registryEntry),
                  !.sessionToContainer = MapSet(@, s, registryEntry.containerName)]
             /\ GcReturn(s, GcResult(s, "assigned", registryEntry.containerName,
                                     FALSE, FALSE))
        ELSE /\ state' = state
             /\ GcGoto(s, "limitAgent")
     /\ UNCHANGED <<auxVars, runVars, config, sched, now, opsLeft, isRunning, registry, docker,
                    nextWarm, rel, health, maint, starter, topup>>

\* lines 155-158: params.agentId ?? "" against the registry.
GetContainerLimitAgent(s) ==
  LET agentContainers ==
        listContainersByAgent(registry,
          IF gc[s].agentId = Undefined THEN "" ELSE gc[s].agentId)
  IN /\ gc[s].pc = "limitAgent"
     /\ IF Len(agentContainers) >= config.pool.maxPerAgent
        THEN GcReturn(s, GcResult(s, "errMaxPerAgent", Null, FALSE, FALSE))
        ELSE GcGoto(s, "limitTotal")
     /\ UNCHANGED <<auxVars, runVars, config, sched, now, opsLeft, isRunning, state, registry,
                    docker, nextWarm, rel, health, maint, starter, topup>>

\* lines 160-163
GetContainerLimitTotal(s) ==
  /\ gc[s].pc = "limitTotal"
  /\ IF Len(registry) >= config.pool.maxTotal
     THEN GcReturn(s, GcResult(s, "errMaxTotal", Null, FALSE, FALSE))
     ELSE GcGoto(s, "listWarm")
  /\ UNCHANGED <<auxVars, runVars, config, sched, now, opsLeft, isRunning, state, registry,
                 docker, nextWarm, rel, health, maint, starter, topup>>

\* lines 166-170 and 192-200: the first warm entry, or the call of
\* createAndStartContainer.
GetContainerListWarm(s) ==
  LET warmContainers == listWarmContainers(registry)
  IN /\ gc[s].pc = "listWarm"
     /\ IF Len(warmContainers) > 0
        THEN gc' = [gc EXCEPT ![s].pc = "assign", ![s].entry = warmContainers[1]]
        ELSE gc' = [gc EXCEPT ![s].pc = "create"]
     /\ UNCHANGED <<auxVars, runVars, config, sched, now, opsLeft, isRunning, state, registry,
                    docker, nextWarm, gcRes, rel, health, maint, starter, topup>>

\* lines 170-187: assign the warm container and top up in the background.
GetContainerAssign(s) ==
  LET warm == gc[s].entry
      st1 == [state EXCEPT
                !.warmPool = @ \ {warm.containerName},
                !.sessionToContainer = MapSet(@, s, warm.containerName),
                !.containers = MapSet(@, warm.containerName,
                   [warm EXCEPT !.sessionKey = s, !.agentId = gc[s].agentId])]
  IN /\ gc[s].pc = "assign"
     /\ registry' = assignContainerToSession(registry, warm.containerName, s,
                                             gc[s].agentId, now)
     /\ state' = st1
     /\ BeginBackgroundTopup(st1)
     /\ GcReturn(s, GcResult(s, "assigned", warm.containerName, FALSE, TRUE))
     /\ UNCHANGED <<auxVars, runVars, config, sched, now, opsLeft, isRunning, docker, rel, health,
                    maint, starter>>

\* lines 200-212: the runtime creates and starts the session's container.
GetContainerCreate(s) ==
  LET name == generateContainerName(s)
  IN /\ gc[s].pc = "create"
     /\ IF CanCreate(name)
        THEN /\ docker' = createAndStartContainer(name)
             /\ gc' = [gc EXCEPT ![s].pc = "register",
                         ![s].entry = NewEntry(name, s, gc[s].agentId, now)]
             /\ gcRes' = gcRes
        ELSE /\ docker' = docker
             /\ GcReturn(s, GcResult(s, "errCreate", Null, FALSE, FALSE))
     /\ UNCHANGED <<auxVars, runVars, config, sched, now, opsLeft, isRunning, state, registry,
                    nextWarm, rel, health, maint, starter, topup>>

\* lines 214-223
GetContainerRegister(s) ==
  LET entry == gc[s].entry
  IN /\ gc[s].pc = "register"
     /\ registry' = updateContainerEntry(registry, entry)
     /\ state' = [state EXCEPT
          !.containers = MapSet(@, entry.containerName, entry),
          !.sessionToContainer = MapSet(@, s, entry.containerName)]
     /\ GcReturn(s, GcResult(s, "assigned", entry.containerName, TRUE, FALSE))
     /\ UNCHANGED <<auxVars, runVars, config, sched, now, opsLeft, isRunning, docker, nextWarm,
                    rel, health, maint, starter, topup>>

\* ------------------------------------------------------- releaseContainer

\* lines 231-236: drop the session mapping and choose the branch.
ReleaseBegin(s, returnToPool) ==
  /\ CanStart
  /\ rel[s].pc = "idle"
  /\ MapHas(state.sessionToContainer, s)
  /\ opsLeft' = opsLeft - 1
  /\ state' = [state EXCEPT !.sessionToContainer = MapDelete(@, s)]
  /\ rel' = [rel EXCEPT ![s] =
       [pc |-> IF returnToPool /\ Cardinality(state.warmPool) < config.pool.minWarm
               THEN "unassign" ELSE "stop",
        containerName |-> state.sessionToContainer[s],
        returnToPool |-> returnToPool]]
  /\ UNCHANGED <<runVars, config, sched, now, isRunning, registry, docker,
                 nextWarm, gc, gcRes, health, maint, starter, topup>>

\* releaseContainer called on the pool manager.
ReleaseCall(s, returnToPool) ==
  /\ ReleaseBegin(s, returnToPool)
  /\ UNCHANGED auxVars

\* lines 238-245: back to the warm pool.
ReleaseUnassign(s) ==
  LET name == rel[s].containerName
  IN /\ rel[s].pc = "unassign"
     /\ registry' = unassignContainer(registry, name, now)
     /\ state' = [state EXCEPT
          !.warmPool = @ \cup {name},
          !.containers =
             IF MapHas(@, name)
             THEN [@ EXCEPT ![name] = [@ EXCEPT !.sessionKey = Null,
                                                !.agentId = Undefined,
                                                !.status = "idle"]]
             ELSE @]
     /\ rel' = [rel EXCEPT ![s] = RelIdle]
     /\ UNCHANGED <<auxVars, runVars, config, sched, now, opsLeft, isRunning, docker, nextWarm,
                    gc, gcRes, health, maint, starter, topup>>

\* lines 248-249: stopContainer, removeContainer.
ReleaseStop(s) ==
  /\ rel[s].pc = "stop"
  /\ docker' = stopAndRemoveContainer(rel[s].containerName)
  /\ rel' = [rel EXCEPT ![s].pc = "unregister"]
  /\ UNCHANGED <<auxVars, runVars, config, sched, now, opsLeft, isRunning, state, registry,
                 nextWarm, gc, gcRes, health, maint, starter, topup>>

\* lines 250-251
ReleaseUnregister(s) ==
  /\ rel[s].pc = "unregister"
  /\ registry' = removeContainerEntry(registry, rel[s].containerName)
  /\ state' = [state EXCEPT !.containers = MapDelete(@, rel[s].containerName)]
  /\ rel' = [rel EXCEPT ![s] = RelIdle]
  /\ UNCHANGED <<auxVars, runVars, config, sched, now, opsLeft, isRunning, docker, nextWarm, gc,
                 gcRes, health, maint, starter, topup>>

\* ------------------------------------------------- registry write failures

NoFault == [kind |-> "none", before |-> EmptyState, after |-> EmptyState]

\* A call that threw: its kind, the in-memory state when it was made and the
\* in-memory state it left.
Threw(s, kind) == [kind |-> kind, before |-> callState[s], after |-> state]

\* getContainer is called and the in-memory state of that moment is noted.
GetContainerWatched(s, agentId) ==
  /\ GetContainerBegin(s, agentId)
  /\ callState' = [callState EXCEPT ![s] = state]
  /\ fault' = [fault EXCEPT ![s] = NoFault]
  /\ UNCHANGED <<runVars, subscriberChannels, interruptQueue, regVars, parseVars, hostVars>>

\* releaseContainer is called and the in-memory state of that moment is noted.
ReleaseWatched(s, returnToPool) ==
  /\ ReleaseBegin(s, returnToPool)
  /\ callState' = [callState EXCEPT ![s] = state]
  /\ fault' = [fault EXCEPT ![s] = NoFault]
  /\ UNCHANGED <<subscriberChannels, interruptQueue, regVars, parseVars, hostVars>>

\* A registry function rejects (writeRegistry fails) in the call of session
\* s: neither getContainer nor releaseContainer catches, the call throws.
RegistryWriteFails(s, inGetContainer) ==
  /\ opsLeft > 0
  /\ opsLeft' = opsLeft - 1
  /\ fault' = [fault EXCEPT
                 ![s] = Threw(s, IF inGetContainer THEN "getContainer"
                                 ELSE "releaseContainer")]
  /\ IF inGetContainer
     THEN /\ GcReturn(s, GcResult(s, "errRegistry", Null, FALSE, FALSE))
          /\ rel' = rel
     ELSE /\ rel' = [rel EXCEPT ![s] = RelIdle]
          /\ UNCHANGED <<gc, gcRes>>
  /\ UNCHANGED <<config, sched, now, isRunning, state, registry, docker,
                 nextWarm, health, maint, starter, topup, runVars,
                 subscriberChannels, interruptQueue, regVars, parseVars, hostVars, callState>>

\* line 170: assignContainerToSession rejects.
GetContainerAssignFails(s) ==
  gc[s].pc = "assign" /\ RegistryWriteFails(s, TRUE)

\* line 214: updateContainerEntry rejects; the container has been created.
GetContainerRegisterFails(s) ==
  gc[s].pc = "register" /\ RegistryWriteFails(s, TRUE)

\* line 238: unassignContainer rejects.
ReleaseUnassignFails(s) ==
  rel[s].pc = "unassign" /\ RegistryWriteFails(s, FALSE)

\* line 250: removeContainerEntry rejects; the container has been removed.
ReleaseUnregisterFails(s) ==
  rel[s].pc = "unregister" /\ RegistryWriteFails(s, FALSE)

\* ------------------------------------------------------------ checkHealth

\* The next container of a tick's list: getContainerState is awaited for it,
\* or the tick ends.
HealthNext(list) ==
  IF list = <<>> THEN HealthIdle ELSE [pc |-> "inspect", list |-> list]

\* lines 377-384: the stale entries of the registry.  A tick that finds none
\* changes nothing.
HealthStart ==
  LET staleThreshold == config.timeouts.healthIntervalMs * StaleFactor
      staleContainers == getStaleContainers(registry, staleThreshold, now)
  IN /\ CanStart
     /\ isRunning
     /\ health.pc = "idle"
     /\ staleContainers # <<>>
     /\ opsLeft' = opsLeft - 1
     /\ health' = HealthNext(staleContainers)
     /\ UNCHANGED <<auxVars, runVars, config, sched, now, isRunning, state, registry, docker,
                    nextWarm, gc, gcRes, rel, maint, starter, topup>>

\* lines 384-391: the runtime's state of the container decides the branch; a
\* dead container leaves the in-memory maps at once (removeContainerByName up
\* to its first await).
HealthInspect ==
  LET container == health.list[1]
      st == getContainerState(container.containerName)
  IN /\ health.pc = "inspect"
     /\ IF ~st.exists \/ ~st.running
        THEN /\ state' = removeContainerByNameSync(state, container.containerName)
             /\ health' = [health EXCEPT !.pc = "stop"]
        ELSE /\ state' = state
             /\ health' = [health EXCEPT !.pc = "mark"]
     /\ UNCHANGED <<auxVars, runVars, config, sched, now, opsLeft, isRunning, registry, docker,
                    nextWarm, gc, gcRes, rel, maint, starter, topup>>

\* removeContainerByName: stopContainer, removeContainer.
HealthStop ==
  /\ health.pc = "stop"
  /\ docker' = stopAndRemoveContainer(health.list[1].containerName)
  /\ health' = [health EXCEPT !.pc = "unregister"]
  /\ UNCHANGED <<auxVars, runVars, config, sched, now, opsLeft, isRunning, state, registry,
                 nextWarm, gc, gcRes, rel, maint, starter, topup>>

\* removeContainerByName: removeContainerEntry, then the next container.
HealthUnregister ==
  /\ health.pc = "unregister"
  /\ registry' = removeContainerEntry(registry, health.list[1].containerName)
  /\ health' = HealthNext(Tail(health.list))
  /\ UNCHANGED <<auxVars, runVars, config, sched, now, opsLeft, isRunning, state, docker,
                 nextWarm, gc, gcRes, rel, maint, starter, topup>>

\* lines 391-394: running without a heartbeat.
HealthMark ==
  LET container == health.list[1]
  IN /\ health.pc = "mark"
     /\ registry' = updateContainerStatus(registry, container.containerName,
                                          "failed", now)
     /\ state' = IF container.sessionKey # Null
                 THEN [state EXCEPT !.sessionToContainer =
                                       MapDelete(@, container.sessionKey)]
                 ELSE state
     /\ health' = HealthNext(Tail(health.list))
     /\ UNCHANGED <<auxVars, runVars, config, sched, now, opsLeft, isRunning, docker, nextWarm,
                    gc, gcRes, rel, maint, starter, topup>>

\* ------------------------------------------------------------ maintenance

\* After the idle removals: await getExpiredContainers.
\* After the expired removals: await ensureWarmPool.
MaintAfter(phase, st) ==
  IF phase = "idle" THEN [pc |-> "expired", list |-> <<>>, phase |-> "expired"]
  ELSE IF ensureWarmPoolCount(st) > 0
  THEN [pc |-> "topup", list |-> <<>>, phase |-> "topup"]
  ELSE MaintIdle

\* The loop over a list of containers to remove: removeContainerByName of the
\* first one, up to its first await; or what follows the loop.
MaintLoop(list, phase, st) ==
  /\ state' = IF list # <<>>
              THEN removeContainerByNameSync(st, list[1].containerName) ELSE st
  /\ maint' = IF list # <<>>
              THEN [pc |-> "stop", list |-> list, phase |-> phase]
              ELSE MaintAfter(phase, st)
  /\ IF list = <<>> /\ phase = "expired"
     THEN BeginTopup("maint", st)
     ELSE /\ nextWarm' = nextWarm
          /\ topup' = topup

\* lines 403-416: the idle containers beyond what the warm pool needs.
MaintBegin ==
  LET idleContainers == getIdleContainers(registry, config.timeouts.idleMs, now)
      keepWarm == Max(0, config.pool.minWarm - Cardinality(state.warmPool))
      toRemove == Slice(SortByHeartbeat(idleContainers), keepWarm)
  IN /\ isRunning
     /\ maint.pc = "idle"
     /\ MaintLoop(toRemove, "idle", state)
     /\ UNCHANGED <<auxVars, runVars, config, sched, now, isRunning, registry, docker, gc, gcRes,
                    rel, health, starter>>

\* A maintenance tick, counted among the operations of a run.
MaintStart ==
  /\ CanStart
  /\ opsLeft' = opsLeft - 1
  /\ MaintBegin

\* A maintenance tick of the interval timer, which fires for as long as the
\* pool manager runs.
MaintTick ==
  /\ sched = "interleaved" \/ AllIdle
  /\ opsLeft' = opsLeft
  /\ MaintBegin

\* removeContainerByName: stopContainer, removeContainer.
MaintStop ==
  /\ maint.pc = "stop"
  /\ docker' = stopAndRemoveContainer(maint.list[1].containerName)
  /\ maint' = [maint EXCEPT !.pc = "unregister"]
  /\ UNCHANGED <<auxVars, runVars, config, sched, now, opsLeft, isRunning, state, registry,
                 nextWarm, gc, gcRes, rel, health, starter, topup>>

\* removeContainerByName: removeContainerEntry, then the rest of the loop.
MaintUnregister ==
  /\ maint.pc = "unregister"
  /\ registry' = removeContainerEntry(registry, maint.list[1].containerName)
  /\ MaintLoop(Tail(maint.list), maint.phase, state)
  /\ UNCHANGED <<auxVars, runVars, config, sched, now, opsLeft, isRunning, docker, gc, gcRes,
                 rel, health, starter>>

\* lines 419-425: the containers past their maximum age.
MaintExpired ==
  /\ maint.pc = "expired"
  /\ MaintLoop(getExpiredContainers(registry, config.timeouts.maxAgeMs, now),
               "expired", state)
  /\ UNCHANGED <<auxVars, runVars, config, sched, now, opsLeft, isRunning, registry, docker, gc,
                 gcRes, rel, health, starter>>

\* ------------------------------------------------------------ start, stop

\* start, lines 65-74, and syncState, line 295: the runtime's containers.
StartCall ==
  /\ CanStart
  /\ ~isRunning
  /\ starter.pc = "idle"
  /\ opsLeft' = opsLeft - 1
  /\ starter' = [pc |-> "sync", dockerNames |-> listContainers]
  /\ UNCHANGED <<auxVars, runVars, config, sched, now, isRunning, state, registry, docker,
                 nextWarm, gc, gcRes, rel, health, maint, topup>>

\* syncState, line 299
StartSync ==
  /\ starter.pc = "sync"
  /\ registry' = syncWithDocker(registry, starter.dockerNames).entries
  /\ starter' = [starter EXCEPT !.pc = "load"]
  /\ UNCHANGED <<auxVars, runVars, config, sched, now, opsLeft, isRunning, state, docker,
                 nextWarm, gc, gcRes, rel, health, maint, topup>>

\* syncState, lines 302-317, and start, lines 77-91: the maps are rebuilt,
\* the tickers are set and the warm pool is topped up.
StartLoad ==
  LET st == rebuildState(EmptyState, registry)
  IN /\ starter.pc = "load"
     /\ state' = st
     /\ isRunning' = TRUE
     /\ BeginTopup("start", st)
     /\ starter' = IF ensureWarmPoolCount(st) > 0
                   THEN [starter EXCEPT !.pc = "topup"] ELSE StarterIdle
     /\ UNCHANGED <<auxVars, runVars, config, sched, now, opsLeft, registry, docker, gc, gcRes,
                    rel, health, maint>>

\* A stop that also forgot the containers it tracks, as shutdown does.
StopAndForget ==
  /\ CanStart
  /\ isRunning
  /\ opsLeft' = opsLeft - 1
  /\ isRunning' = FALSE
  /\ state' = EmptyState
  /\ UNCHANGED <<auxVars, runVars, config, sched, now, registry, docker, nextWarm, gc,
                 gcRes, rel, health, maint, starter, topup>>

\* stop, lines 97-111
Stop ==
  /\ CanStart
  /\ isRunning
  /\ opsLeft' = opsLeft - 1
  /\ isRunning' = FALSE
  /\ UNCHANGED <<auxVars, runVars, config, sched, now, state, registry, docker, nextWarm, gc,
                 gcRes, rel, health, maint, starter, topup>>

\* ------------------------------------------------------------- environment

\* Time passes.
Tick ==
  /\ opsLeft > 0
  /\ now < MaxClock * TickMs
  /\ opsLeft' = opsLeft - 1
  /\ now' = now + TickMs
  /\ UNCHANGED <<auxVars, runVars, config, sched, isRunning, state, registry, docker, nextWarm,
                 gc, gcRes, rel, health, maint, starter, topup>>

\* A container exits, or is removed, behind the pool manager's back.
ContainerLost(name, to) ==
  /\ opsLeft > 0
  /\ docker[name] = "running"
  /\ opsLeft' = opsLeft - 1
  /\ docker' = [docker EXCEPT ![name] = to]
  /\ UNCHANGED <<auxVars, runVars, config, sched, now, isRunning, state, registry, nextWarm, gc,
                 gcRes, rel, health, maint, starter, topup>>

\* ------------------------------------------------------------------ broker

KeyPrefixes == {DefaultKeyPrefix, WrapperKeyPrefix}
BrokerKeys == {p \o k : p \in KeyPrefixes, k \in AllKeys}

\* getSessionRedisKeys: the host's keys of a session, less their suffix.
getSessionRedisKeys(sessionKey) == config.redis.keyPrefix \o sessionKey

\* RedisPublisher: the wrapper's keys of its session id, less their suffix.
PublisherKey(sessionId) == WrapperKeyPrefix \o sessionId

\* getSessionRedisKeys: the keys the host addresses for a session.
HostKeys(sessionKey) ==
  LET key == config.redis.keyPrefix \o sessionKey
  IN [input |-> key \o ":input", output |-> key \o ":output",
      state |-> key \o ":state", result |-> key \o ":result"]

\* RedisPublisher: the keys getInput pops from, publishOutput and
\* publishResult publish on, updateState writes and publishResult stores.
WrapperKeys(sessionId) ==
  [input |-> "session:" \o sessionId \o ":input",
   output |-> "session:" \o sessionId \o ":output",
   state |-> "session:" \o sessionId \o ":state",
   result |-> "session:" \o sessionId \o ":result"]

\* getContainerEnv: SESSION_ID is the session key the container was created
\* for, which is the key its name was generated from.
SessionIdOf(name) == CHOOSE k \in AllKeys : generateContainerName(k) = name

ZeroUsage == [input_tokens |-> 0, output_tokens |-> 0]
NoData == [subtype |-> Null, turn |-> 0]
HasData(r) == r.subtype # Null

\* RedisPublisher.publishResult: the stored ResultPayloadData.  `turn` is the
\* number of the input record the result answers.
ResultPayloadData(subtype, turn) ==
  [subtype |-> subtype, result |-> "text",
   usage |-> [input_tokens |-> 1, output_tokens |-> 1],
   duration_ms |-> TickMs, turn |-> turn]

\* The ClaudeRunResult, were a missing result record to count as an error.
ClaudeRunResultNullIsError(resultData) ==
  [result |-> IF HasData(resultData) THEN resultData.result ELSE Null,
   usage |-> IF HasData(resultData) THEN resultData.usage ELSE ZeroUsage,
   duration_ms |-> IF HasData(resultData) THEN resultData.duration_ms ELSE 0,
   exit_code |-> IF HasData(resultData) /\ resultData.subtype = "success"
                 THEN 0 ELSE 1]

\* DockerCCRunner.run: the ClaudeRunResult built from what waitForResult gave.
ClaudeRunResult(resultData) ==
  [result |-> IF HasData(resultData) THEN resultData.result ELSE Null,
   usage |-> IF HasData(resultData) THEN resultData.usage ELSE ZeroUsage,
   duration_ms |-> IF HasData(resultData) THEN resultData.duration_ms ELSE 0,
   exit_code |-> IF HasData(resultData) /\ resultData.subtype = "error"
                 THEN 1 ELSE 0]

\* waitForResult sleeps between two polls.
PollSleepMs == TickMs
RunTimeouts == {TickMs, 2 * TickMs}

WrapOff == [pc |-> "off", input |-> 0, turnCount |-> 0, drained |-> <<>>]

\* An InterruptMessage; `message` is the number of the prompt it carries.
InterruptTypes == {"redirect"}
InterruptMessage(type, message) == [type |-> type, message |-> message]

\* handleInterrupt's interruptPrompt: a prompt made from a redirect, numbered
\* below zero to tell it from the input records run pushes.
InterruptPrompt(message) == 0 - message

\* WrapperApp.handleInterrupt on the wrapper's input list: a redirect is
\* injected at the head (injectPrompt, injectInput's lpush) when this.runner
\* is set, and dropped when it is not.
handleInterrupt(interrupt, runner, list) ==
  IF interrupt.type = "redirect" /\ runner
  THEN <<InterruptPrompt(interrupt.message)>> \o list
  ELSE list

\* InterruptListener.start: the queued interrupts are handled in order.
RECURSIVE HandleQueued(_, _, _)
HandleQueued(queued, runner, list) ==
  IF queued = <<>> THEN list
  ELSE HandleQueued(Tail(queued), runner,
                    handleInterrupt(Head(queued), runner, list))

\* WrapperApp.start: this.runner is assigned after interruptListener.start()
\* has returned, so it is null while the queued interrupts are handled.
RunnerAtStartupDrain == FALSE
RunIdle == [pc |-> "idle", timeoutMs |-> 0, onOutput |-> FALSE, input |-> 0,
            startTime |-> 0, wake |-> 0, resultData |-> NoData,
            cause |-> "none", waited |-> 0, failed |-> FALSE]
RunNone == [kind |-> "none", value |-> ClaudeRunResult(NoData), input |-> 0,
            turn |-> 0, cause |-> "none", waited |-> 0, timeoutMs |-> 0,
            onOutput |-> FALSE]

\* ------------------------------------------------- registry read and write

RegProcs == 1..MaxRegProcs
RegNames == {generateContainerName("s1"), generateContainerName(WarmKey(1))}

\* A call of one of registry.ts's mutating functions, with its arguments.
Mutation(kind, name, sessionKey, agentId, status, claudeSessionId, turnCount, names) ==
  [kind |-> kind, name |-> name, sessionKey |-> sessionKey,
   agentId |-> agentId, status |-> status,
   claudeSessionId |-> claudeSessionId, turnCount |-> turnCount,
   names |-> names]

NoMutation == Mutation("none", Null, Null, Undefined, "idle", Undefined,
                       NoTurnCount, {})

RegMutations ==
  {Mutation("updateContainerEntry", n, k, IF k = Null THEN Undefined ELSE "a1",
            "idle", Undefined, NoTurnCount, {}) :
     n \in RegNames, k \in {Null, "s1"}}
  \cup {Mutation("removeContainerEntry", n, Null, Undefined, "idle", Undefined,
                 NoTurnCount, {}) : n \in RegNames}
  \cup {Mutation("updateContainerStatus", n, Null, Undefined, "failed",
                 Undefined, NoTurnCount, {}) : n \in RegNames}
  \cup {Mutation("updateContainerHeartbeat", n, Null, Undefined, "idle", c[1],
                 c[2], {}) :
          n \in RegNames, c \in {<<"c1", 1>>, <<Undefined, NoTurnCount>>}}
  \cup {Mutation("assignContainerToSession", n, "s1", "a1", "idle", Undefined,
                 NoTurnCount, {}) : n \in RegNames}
  \cup {Mutation("unassignContainer", n, Null, Undefined, "idle", Undefined,
                 NoTurnCount, {}) : n \in RegNames}
  \cup {Mutation("syncWithDocker", Null, Null, Undefined, "idle", Undefined,
                 NoTurnCount, R) : R \in SUBSET RegNames}

\* The entries array a mutating function writes, having read `entries` at
\* time t.
ApplyMutation(m, entries, t) ==
  CASE m.kind = "updateContainerEntry" ->
         updateContainerEntry(entries,
                              NewEntry(m.name, m.sessionKey, m.agentId, t))
    [] m.kind = "removeContainerEntry" -> removeContainerEntry(entries, m.name)
    [] m.kind = "updateContainerStatus" ->
         updateContainerStatus(entries, m.name, m.status, t)
    [] m.kind = "updateContainerHeartbeat" ->
         updateContainerHeartbeat(entries, m.name, m.claudeSessionId,
                                  m.turnCount, t)
    [] m.kind = "assignContainerToSession" ->
         assignContainerToSession(entries, m.name, m.sessionKey, m.agentId, t)
    [] m.kind = "unassignContainer" -> unassignContainer(entries, m.name, t)
    [] m.kind = "syncWithDocker" -> syncWithDocker(entries, m.names).entries
    [] OTHER -> entries

\* What a mutating function returns: syncWithDocker returns the removed names.
MutationReturns(m, entries) ==
  IF m.kind = "syncWithDocker" THEN syncWithDocker(entries, m.names).removed
  ELSE <<>>

RegIdle == [pc |-> "idle", mutation |-> NoMutation, snapshot |-> <<>>,
            time |-> 0, previous |-> <<>>, wrote |-> <<>>, returned |-> <<>>]

\* What is remembered of the mutations of one container name: whether an
\* assignContainerToSession, then heartbeat updates, then an unassignContainer
\* of that name have been the only writes since `before`.
NoHist == [stage |-> "none", beats |-> 0, before |-> <<>>]

NextHist(h, n, m, entries) ==
  IF m.name # n THEN NoHist
  ELSE IF m.kind = "assignContainerToSession" /\ HasEntry(entries, n)
  THEN [stage |-> "assigned", beats |-> 0, before |-> entries]
  ELSE IF m.kind = "updateContainerHeartbeat" /\ h.stage = "assigned"
  THEN [h EXCEPT !.beats = @ + 1]
  ELSE IF m.kind = "unassignContainer" /\ h.stage = "assigned"
  THEN [h EXCEPT !.stage = "unassigned"]
  ELSE NoHist

\* The registry documents a run may start from.
InitialEntries(n) ==
  {NewEntry(n, Null, Undefined, 0),
   [NewEntry(n, "s1", "a1", 0) EXCEPT !.status = "running", !.turnCount = 1,
                                     !.claudeSessionId = "c1"]}

InitialRegistries ==
  {<<>>}
  \cup {<<e>> : e \in UNION {InitialEntries(n) : n \in RegNames}}
  \cup {<<e, f>> : e \in InitialEntries(generateContainerName("s1")),
                   f \in InitialEntries(generateContainerName(WarmKey(1)))}
  \cup {<<f, e>> : e \in InitialEntries(generateContainerName("s1")),
                   f \in InitialEntries(generateContainerName(WarmKey(1)))}

\* A mutating function is called: readRegistry resolves and the change is
\* made to the copy that was read.
RegistryRead(p, m) ==
  /\ opsLeft > 0
  /\ regOp[p].pc # "read"
  /\ opsLeft' = opsLeft - 1
  /\ regOp' = [regOp EXCEPT ![p] = [RegIdle EXCEPT !.pc = "read",
                                                   !.mutation = m,
                                                   !.snapshot = registry,
                                                   !.time = now]]
  /\ UNCHANGED <<config, sched, now, isRunning, state, registry, docker,
                 nextWarm, gc, gcRes, rel, health, maint, starter, topup,
                 runVars, subscriberChannels,
                 interruptQueue, regHist, faultVars, parseVars, hostVars>>

\* writeRegistry: the changed copy replaces the document.
RegistryWrite(p) ==
  LET m == regOp[p].mutation
      clean == regOp[p].snapshot = registry
  IN /\ regOp[p].pc = "read"
     /\ registry' = ApplyMutation(m, regOp[p].snapshot, regOp[p].time)
     /\ regOp' = [regOp EXCEPT ![p].pc = "done", ![p].previous = registry,
                               ![p].wrote = registry',
                               ![p].returned =
                                  MutationReturns(m, regOp[p].snapshot)]
     /\ regHist' = [n \in RegNames |->
                     IF clean THEN NextHist(regHist[n], n, m, registry)
                     ELSE NoHist]
     /\ UNCHANGED <<config, sched, now, opsLeft, isRunning, state, docker,
                    nextWarm, gc, gcRes, rel, health, maint, starter, topup,
                    runVars, subscriberChannels, interruptQueue, faultVars, parseVars, hostVars>>

\* No shutdown call of the pool manager in flight.
ShutIdle == [pc |-> "idle", visited |-> {}, name |-> Null]

\* The message types of a wrapper's stream: a "result" message ends the
\* stream of a prompt, every other type is an output record.
MessageTypes == {"assistant", "result"}

\* The callers of DockerCCRunner.initialize: run, getStatus and sendInterrupt
\* call it while isInitialized is false.
Callers == {"run", "getStatus", "sendInterrupt"}

\* No initialize call in flight for a caller.
BootIdle == "idle"

\* DockerCCRedisClient after construction: client and subscriber are null
\* (0) and no connection was opened.  `made` numbers the Redis objects made,
\* from 1.
NoRedis == [client |-> 0, subscriber |-> 0, live |-> {}, made |-> 0]

\* DockerCCPoolManager after construction: both interval handles are null
\* (0) and no interval is set.  `made` numbers the setInterval calls, from 1.
NoIntervals ==
  [healthCheckInterval |-> 0, maintenanceInterval |-> 0,
   health |-> {}, maintenance |-> {}, made |-> 0]

\* hgetall of a key that does not exist: no field.  -1 stands for a field
\* that is not set, and for a heartbeat age of null.
NoBeat == -1
NoAge == -1
NoHash == [status |-> Undefined, last_heartbeat |-> NoBeat]

\* getSessionState returning null.
NoSessionState == [sessionId |-> Null, status |-> Undefined, lastHeartbeat |-> NoBeat]

\* checkContainer, lines 140-145 and 151-156.
Unhealthy ==
  [healthy |-> FALSE, status |-> NoSessionState, lastHeartbeatAgeMs |-> NoAge,
   isStale |-> TRUE]

\* The two run calls that overlap on a session key, and a call not made yet.
RunCalls == {1, 2}
PairIdle == [pc |-> "idle", got |-> <<>>]

InitRun ==
  /\ pair = [c \in RunCalls |-> PairIdle]
  /\ outputCallback = [s \in Sessions |-> 0]
  /\ stateHash = [s \in Sessions |-> NoHash]
  /\ monitorClient = FALSE
  /\ checked = [s \in Sessions |-> Unhealthy]
  /\ streamed = [k \in BrokerKeys |-> <<>>]
  /\ inbound = <<>>
  /\ delivered = [s \in Sessions |-> <<>>]
  /\ boot = [c \in Callers |-> BootIdle]
  /\ isInitialized = FALSE
  /\ isConnected = FALSE
  /\ redis = NoRedis
  /\ intervals = NoIntervals
  /\ closing = FALSE
  /\ shut = ShutIdle
  /\ brokerInput = [k \in BrokerKeys |-> <<>>]
  /\ brokerResult = [k \in BrokerKeys |-> NoData]
  /\ brokerState = [k \in BrokerKeys |-> Null]
  /\ subscriptions = {}
  /\ wrap = [n \in Names |-> WrapOff]
  /\ run = [s \in Sessions |-> RunIdle]
  /\ runRes = [s \in Sessions |-> RunNone]
  /\ nextInput = 0
  /\ subscriberChannels = {}
  /\ interruptQueue = [k \in BrokerKeys |-> <<>>]
  /\ regOp = [p \in RegProcs |-> RegIdle]
  /\ regHist = [n \in RegNames |-> NoHist]
  /\ callState = [s \in Sessions |-> EmptyState]
  /\ fault = [s \in Sessions |-> NoFault]

\* ----------------------------------------------------------------- wrapper

\* WrapperApp.start up to InteractiveRunner.run's updateState("idle"): the
\* interrupt listener subscribes to the control channel and drains the
\* wrapper's interrupt_queue (getQueuedInterrupts pops every record), then
\* the runner is made.  `drained` remembers the redirects the drain took.
WrapperBoot(name) ==
  LET key == PublisherKey(SessionIdOf(name))
      queued == interruptQueue[key]
  IN /\ docker[name] = "running"
     /\ wrap[name].pc = "off"
     /\ interruptQueue' = [interruptQueue EXCEPT ![key] = <<>>]
     /\ brokerInput' = [brokerInput EXCEPT
                          ![key] = HandleQueued(queued, RunnerAtStartupDrain, @)]
     /\ brokerState' = [brokerState EXCEPT ![key] = "idle"]
     /\ wrap' = [wrap EXCEPT ![name] =
                   [WrapOff EXCEPT !.pc = "wait", !.drained = queued]]
     /\ UNCHANGED <<poolVars, brokerResult, subscriptions, run, runRes,
                    nextInput, subscriberChannels, regVars, parseVars, hostVars,
                    faultVars>>

\* InteractiveRunner.run: getInput pops the head of the wrapper's input list,
\* then updateState("running").
WrapperTakesInput(name) ==
  LET key == PublisherKey(SessionIdOf(name))
  IN /\ docker[name] = "running"
     /\ wrap[name].pc = "wait"
     /\ brokerInput[key] # <<>>
     /\ brokerInput' = [brokerInput EXCEPT ![key] = Tail(@)]
     /\ brokerState' = [brokerState EXCEPT ![key] = "running"]
     /\ wrap' = [wrap EXCEPT ![name].pc = "running",
                             ![name].input = Head(brokerInput[key])]
     /\ UNCHANGED <<auxVars, poolVars, brokerResult, subscriptions, run, runRes,
                    nextInput>>

\* ClaudeRunner.runPrompt ends: publishResult stores the result record; then
\* the turn is counted and updateState("idle").
WrapperPublishes(name, subtype) ==
  LET key == PublisherKey(SessionIdOf(name))
  IN /\ docker[name] = "running"
     /\ wrap[name].pc = "running"
     /\ brokerResult' = [brokerResult EXCEPT
                           ![key] = ResultPayloadData(subtype, wrap[name].input)]
     /\ brokerState' = [brokerState EXCEPT ![key] = "idle"]
     /\ wrap' = [wrap EXCEPT ![name].pc = "wait",
                             ![name].turnCount = @ + 1]
     /\ UNCHANGED <<auxVars, poolVars, brokerInput, subscriptions, run, runRes,
                    nextInput>>

\* A signal ends the wrapper while it waits for input: the loop ends, cleanup
\* writes updateState("stopped") and the container exits.
WrapperShutdown(name) ==
  /\ opsLeft > 0
  /\ docker[name] = "running"
  /\ wrap[name].pc = "wait"
  /\ opsLeft' = opsLeft - 1
  /\ docker' = [docker EXCEPT ![name] = "exited"]
  /\ brokerState' = [brokerState EXCEPT
                       ![PublisherKey(SessionIdOf(name))] = "stopped"]
  /\ wrap' = [wrap EXCEPT ![name].pc = "off"]
  /\ UNCHANGED <<config, sched, now, isRunning, state, registry, nextWarm, gc,
                 gcRes, rel, health, maint, starter, topup, brokerInput,
                 brokerResult, subscriptions, run, runRes, nextInput, auxVars>>

\* publishResult: the result record expires (SESSION_DATA_EXPIRY_SEC).
ResultExpires(key) ==
  /\ opsLeft > 0
  /\ HasData(brokerResult[key])
  /\ opsLeft' = opsLeft - 1
  /\ brokerResult' = [brokerResult EXCEPT ![key] = NoData]
  /\ UNCHANGED <<config, sched, now, isRunning, state, registry, docker,
                 nextWarm, gc, gcRes, rel, health, maint, starter, topup,
                 brokerInput, brokerState, subscriptions, wrap, run, runRes,
                 nextInput, auxVars>>

\* DockerCCRunner.sendInterrupt on an initialized runner: the interrupt is
\* published on the host's control channel, where a running wrapper that
\* listens on that very channel handles it at once, and it is appended to the
\* host's interrupt_queue.
SendInterrupt(s, type) ==
  LET key == getSessionRedisKeys(s)
      interrupt == InterruptMessage(type, nextInput + 1)
      listening == \E n \in Names : /\ wrap[n].pc # "off"
                                     /\ docker[n] = "running"
                                     /\ PublisherKey(SessionIdOf(n)) = key
  IN /\ opsLeft > 0
     /\ isRunning
     /\ starter.pc = "idle"
     /\ opsLeft' = opsLeft - 1
     /\ nextInput' = nextInput + 1
     /\ brokerInput' = IF listening
                       THEN [brokerInput EXCEPT
                               ![key] = handleInterrupt(interrupt, TRUE, @)]
                       ELSE brokerInput
     /\ interruptQueue' = [interruptQueue EXCEPT ![key] = Append(@, interrupt)]
     /\ UNCHANGED <<config, sched, now, isRunning, state, registry, docker,
                    nextWarm, gc, gcRes, rel, health, maint, starter, topup,
                    brokerResult, brokerState, subscriptions, wrap, run,
                    runRes, subscriberChannels, regVars, parseVars, hostVars,
                    faultVars>>

\* -------------------------------------------------------- DockerCCRunner.run

\* run, lines 85-116: the runner is initialized (the pool manager has been
\* started) and getContainer is called.
RunCall(s, agentId, timeoutMs, onOutput) ==
  /\ isRunning
  /\ starter.pc = "idle"
  /\ run[s].pc = "idle"
  /\ GetContainerBegin(s, agentId)
  /\ run' = [run EXCEPT ![s] = [RunIdle EXCEPT !.pc = "getContainer",
                                              !.timeoutMs = timeoutMs,
                                              !.onOutput = onOutput]]
  /\ runRes' = [runRes EXCEPT ![s] = RunNone]
  /\ UNCHANGED <<brokerInput, brokerResult, brokerState, subscriptions, wrap,
                 nextInput, auxVars>>

\* The step that would follow getContainer, were the input pushed without
\* awaiting the channel subscription.
AfterGetContainerNoAwait(onOutput) == "sendInput"

\* lines 118-141: with onOutput, subscribeOutput is awaited before sendInput.
AfterGetContainer(onOutput) == IF onOutput THEN "subscribe" ELSE "sendInput"

\* lines 111-133: getContainer has returned or thrown; with onOutput the
\* callback is stored and the channel subscription is requested.
RunGotContainer(s) ==
  /\ run[s].pc = "getContainer"
  /\ gc[s].pc = "idle"
  /\ IF gcRes[s].kind = "assigned"
     THEN /\ run' = [run EXCEPT ![s].pc = AfterGetContainer(run[s].onOutput)]
          /\ subscriptions' = IF run[s].onOutput THEN subscriptions \cup {s}
                              ELSE subscriptions
          /\ runRes' = runRes
     ELSE /\ run' = [run EXCEPT ![s] = RunIdle]
          /\ subscriptions' = subscriptions
          /\ runRes' = [runRes EXCEPT ![s] = [RunNone EXCEPT !.kind = "threw"]]
  /\ UNCHANGED <<auxVars, poolVars, brokerInput, brokerResult, brokerState, wrap,
                 nextInput>>

\* subscribeOutput: subscriber.subscribe(keys.output) is acknowledged and the
\* unsubscribe closure is returned to run.
RunSubscribed(s) ==
  /\ run[s].pc = "subscribe"
  /\ subscriberChannels' = subscriberChannels \cup {getSessionRedisKeys(s)}
  /\ run' = [run EXCEPT ![s].pc = "sendInput"]
  /\ UNCHANGED <<poolVars, brokerInput, brokerResult, brokerState,
                 subscriptions, wrap, runRes, nextInput, interruptQueue,
                 regVars, parseVars, hostVars, faultVars>>

\* subscribeOutput: subscriber.subscribe(keys.output) rejects.  The await is
\* outside run's try block and `unsubscribe` is still null: run throws.
RunSubscribeFails(s) ==
  /\ opsLeft > 0
  /\ run[s].pc = "subscribe"
  /\ opsLeft' = opsLeft - 1
  /\ run' = [run EXCEPT ![s] = RunIdle]
  /\ runRes' = [runRes EXCEPT ![s] = [RunNone EXCEPT !.kind = "threw",
                                                     !.onOutput = TRUE]]
  /\ UNCHANGED <<config, sched, now, isRunning, state, registry, docker,
                 nextWarm, gc, gcRes, rel, health, maint, starter, topup,
                 brokerInput, brokerResult, brokerState, subscriptions, wrap,
                 nextInput, auxVars>>

\* sendInput: rpush on the host's input key; then waitForResult reads the
\* clock and asks for the result.
RunSendInput(s) ==
  LET key == getSessionRedisKeys(s)
  IN /\ run[s].pc = "sendInput"
     /\ nextInput' = nextInput + 1
     /\ brokerInput' = [brokerInput EXCEPT ![key] = Append(@, nextInput + 1)]
     /\ run' = [run EXCEPT ![s].pc = "getResult", ![s].input = nextInput + 1,
                           ![s].startTime = now]
     /\ UNCHANGED <<auxVars, poolVars, brokerResult, brokerState, subscriptions, wrap,
                    runRes>>

\* waitForResult resolves with resultData.
Resolve(s, resultData, cause) ==
  [run EXCEPT ![s].pc = "getState", ![s].resultData = resultData,
              ![s].cause = cause, ![s].waited = now - run[s].startTime]

\* waitForResult: getSessionResult
RunGetResult(s) ==
  LET result == brokerResult[getSessionRedisKeys(s)]
  IN /\ run[s].pc = "getResult"
     /\ run' = IF HasData(result) THEN Resolve(s, result, "result")
               ELSE [run EXCEPT ![s].pc = "pollState"]
     /\ UNCHANGED <<auxVars, poolVars, brokerInput, brokerResult, brokerState,
                    subscriptions, wrap, runRes, nextInput>>

\* waitForResult: getSessionState, then the final read or the sleep.
RunPollState(s) ==
  LET status == brokerState[getSessionRedisKeys(s)]
  IN /\ run[s].pc = "pollState"
     /\ run' = IF status \in {"stopped", "failed"}
               THEN [run EXCEPT ![s].pc = "finalResult"]
               ELSE [run EXCEPT ![s].pc = "sleep",
                                ![s].wake = now + PollSleepMs]
     /\ UNCHANGED <<auxVars, poolVars, brokerInput, brokerResult, brokerState,
                    subscriptions, wrap, runRes, nextInput>>

\* waitForResult: the session has ended, whatever result is stored is returned.
RunFinalResult(s) ==
  /\ run[s].pc = "finalResult"
  /\ run' = Resolve(s, brokerResult[getSessionRedisKeys(s)], "ended")
  /\ UNCHANGED <<auxVars, poolVars, brokerInput, brokerResult, brokerState,
                 subscriptions, wrap, runRes, nextInput>>

\* waitForResult: the sleep ends and the loop condition is read.
RunWake(s) ==
  /\ run[s].pc = "sleep"
  /\ now >= run[s].wake
  /\ run' = IF now - run[s].startTime < run[s].timeoutMs
            THEN [run EXCEPT ![s].pc = "getResult"]
            ELSE Resolve(s, NoData, "timeout")
  /\ UNCHANGED <<auxVars, poolVars, brokerInput, brokerResult, brokerState,
                 subscriptions, wrap, runRes, nextInput>>

\* What the run call of session s hands to its caller.
RunOutcome(s) ==
  IF run[s].failed
  THEN [RunNone EXCEPT !.kind = "threw", !.onOutput = run[s].onOutput]
  ELSE [kind |-> "returned", value |-> ClaudeRunResult(run[s].resultData),
        input |-> run[s].input, turn |-> run[s].resultData.turn,
        cause |-> run[s].cause, waited |-> run[s].waited,
        timeoutMs |-> run[s].timeoutMs, onOutput |-> run[s].onOutput]

\* lines 146-169: the result is built, getSessionState is read, onResult is
\* called; the finally block then calls the unsubscribe closure, which
\* deletes the subscription entry and asks the broker to unsubscribe.
RunReturn(s) ==
  /\ run[s].pc = "getState"
  /\ IF run[s].onOutput
     THEN /\ subscriptions' = subscriptions \ {s}
          /\ run' = [run EXCEPT ![s].pc = "unsubscribe"]
          /\ runRes' = runRes
     ELSE /\ subscriptions' = subscriptions
          /\ run' = [run EXCEPT ![s] = RunIdle]
          /\ runRes' = [runRes EXCEPT ![s] = RunOutcome(s)]
  /\ UNCHANGED <<auxVars, poolVars, brokerInput, brokerResult, brokerState, wrap,
                 nextInput>>

\* lines 141-161: sendInput, waitForResult's reads, getSessionState or the
\* onResult callback rejects inside the try block; the finally block runs.
RunFails(s) ==
  /\ opsLeft > 0
  /\ run[s].pc \in {"sendInput", "getResult", "pollState", "finalResult",
                    "getState"}
  /\ opsLeft' = opsLeft - 1
  /\ IF run[s].onOutput
     THEN /\ subscriptions' = subscriptions \ {s}
          /\ run' = [run EXCEPT ![s].pc = "unsubscribe", ![s].failed = TRUE]
          /\ runRes' = runRes
     ELSE /\ subscriptions' = subscriptions
          /\ run' = [run EXCEPT ![s] = RunIdle]
          /\ runRes' = [runRes EXCEPT ![s] = [RunNone EXCEPT !.kind = "threw"]]
  /\ UNCHANGED <<config, sched, now, isRunning, state, registry, docker,
                 nextWarm, gc, gcRes, rel, health, maint, starter, topup,
                 brokerInput, brokerResult, brokerState, wrap, nextInput,
                 auxVars>>

\* The unsubscribe closure: subscriber.unsubscribe(keys.output) is
\* acknowledged; run returns its result or rethrows.
RunUnsubscribed(s) ==
  /\ run[s].pc = "unsubscribe"
  /\ subscriberChannels' = subscriberChannels \ {getSessionRedisKeys(s)}
  /\ run' = [run EXCEPT ![s] = RunIdle]
  /\ runRes' = [runRes EXCEPT ![s] = RunOutcome(s)]
  /\ UNCHANGED <<poolVars, brokerInput, brokerResult, brokerState,
                 subscriptions, wrap, nextInput, interruptQueue, regVars, parseVars, hostVars,
                 faultVars>>

\* ----------------------------------------------------------- output records

\* A broker that sent a published payload ahead of what it has sent before.
publishOutputAtHead(queue, channels, key, data) ==
  IF key \in channels
  THEN <<[channel |-> key, payload |-> [type |-> "output", data |-> data]]>> \o queue
  ELSE queue

\* RedisPublisher.publishOutput: PUBLISH on the wrapper's output channel.  The
\* broker sends the payload to the host's subscriber connection when that
\* connection is subscribed to the channel, behind what it has sent before.
\* (The payload is also pushed on the output_buffer list, which run never
\* reads.)
publishOutput(queue, channels, key, data) ==
  IF key \in channels
  THEN Append(queue, [channel |-> key, payload |-> [type |-> "output", data |-> data]])
  ELSE queue

\* ClaudeRunner.runPrompt's loop takes the next message from streamOutput,
\* which yields the parser's records in the order feed returned them, and
\* awaits publishOutput for it unless it is a "result" message.  A record's
\* data is its position in the wrapper's stream.
WrapperStreams(name, msgType) ==
  LET key == PublisherKey(SessionIdOf(name))
      position == Len(streamed[key]) + 1
  IN /\ docker[name] = "running"
     /\ wrap[name].pc = "running"
     /\ position <= MaxOutputs
     /\ streamed' = [streamed EXCEPT ![key] = Append(@, msgType)]
     /\ inbound' = IF msgType # "result"
                   THEN publishOutput(inbound, subscriberChannels, key, position)
                   ELSE inbound
     /\ UNCHANGED <<poolVars, runVars, subscriberChannels, interruptQueue,
                    regVars, faultVars, parseVars, delivered, bootVars, shut,
                    sideVars>>

\* handleSubscriptionMessage's loop: the subscriptions whose channel is the
\* message's channel; the loop breaks at the first.
handleSubscriptionMessage(subs, channel) ==
  {s \in subs : getSessionRedisKeys(s) = channel}

\* run's subscribeOutput callback up to its await: an output payload with
\* data is pushed on outputBuffer and onOutput is invoked with it.  Data is a
\* position of a stream, counted from 1; 0 stands for a payload without data.
runOutputCallback(records, payload) ==
  IF payload.type = "output" /\ payload.data > 0
  THEN Append(records, payload.data)
  ELSE records

\* The subscriber connection's "message" event for the oldest message not
\* yet handled.
HostHandlesMessage ==
  /\ inbound # <<>>
  /\ LET m == Head(inbound)
         subs == handleSubscriptionMessage(subscriptions, m.channel)
     IN delivered' = IF subs = {}
                     THEN delivered
                     ELSE [delivered EXCEPT ![CHOOSE s \in subs : TRUE] =
                             runOutputCallback(@, m.payload)]
  /\ inbound' = Tail(inbound)
  /\ UNCHANGED <<poolVars, runVars, subscriberChannels, interruptQueue,
                 regVars, faultVars, parseVars, streamed, bootVars, shut,
                 sideVars>>

\* ----------------------------------------------------------------- shutdown

\* What a step of the pool manager's shutdown leaves alone.
shutFrame ==
  <<config, sched, now, nextWarm, gc, gcRes, rel, health, maint, starter, topup,
    runVars, subscriberChannels, interruptQueue, regVars, faultVars, parseVars,
    outVars, bootVars, sideVars>>

\* shutdown, line 432: stop() runs to its end.  It is the last call made on
\* the pool manager; what is in flight goes on.
PoolShutdownCall ==
  /\ opsLeft > 0
  /\ shut.pc = "idle"
  /\ opsLeft' = 0
  /\ isRunning' = FALSE
  /\ shut' = [ShutIdle EXCEPT !.pc = "next"]
  /\ UNCHANGED <<shutFrame, state, registry, docker>>

\* shutdown, lines 435 and 445-447: the loop takes the next entry of
\* state.containers, entries inserted since the loop began included; when
\* there is none the three collections are cleared and shutdown returns.
PoolShutdownNext ==
  LET rest == DOMAIN state.containers \ shut.visited
  IN /\ shut.pc = "next"
     /\ IF rest = {}
        THEN /\ state' = EmptyState
             /\ shut' = [ShutIdle EXCEPT !.pc = "returned"]
        ELSE /\ state' = state
             /\ \E name \in rest :
                  shut' = [shut EXCEPT !.pc = "stop", !.name = name,
                                       !.visited = @ \cup {name}]
     /\ UNCHANGED <<shutFrame, opsLeft, isRunning, registry, docker>>

\* shutdown, lines 437-438: stopContainer, removeContainer.
PoolShutdownStop ==
  /\ shut.pc = "stop"
  /\ docker' = stopAndRemoveContainer(shut.name)
  /\ shut' = [shut EXCEPT !.pc = "unregister"]
  /\ UNCHANGED <<shutFrame, opsLeft, isRunning, state, registry>>

\* shutdown, line 439: removeContainerEntry.
PoolShutdownUnregister ==
  /\ shut.pc = "unregister"
  /\ registry' = removeContainerEntry(registry, shut.name)
  /\ shut' = [shut EXCEPT !.pc = "next", !.name = Null]
  /\ UNCHANGED <<shutFrame, opsLeft, isRunning, state, docker>>

\* ----------------------------------------------------------- initialization

\* What an initialize, stop or shutdown call of the runner leaves alone.
bootFrame ==
  <<config, sched, now, state, registry, docker, nextWarm, gc, gcRes, rel,
    health, maint, starter, topup, runVars, subscriberChannels, interruptQueue,
    regVars, faultVars, parseVars, outVars, shut, sideVars>>

\* connect, lines 57-78: the two Redis objects are made and stored, and
\* connect() is called on the stored client.
makeClients(r) ==
  [r EXCEPT !.client = r.made + 1,
            !.subscriber = r.made + 2,
            !.live = @ \cup {r.made + 1},
            !.made = @ + 2]

\* start, lines 77-87: both intervals are set and their handles stored.
setIntervals(iv) ==
  [iv EXCEPT !.healthCheckInterval = iv.made + 1,
             !.maintenanceInterval = iv.made + 2,
             !.health = @ \cup {iv.made + 1},
             !.maintenance = @ \cup {iv.made + 2},
             !.made = @ + 2]

\* stop, lines 102-110: clearInterval on the two stored handles.
clearIntervals(iv) ==
  [iv EXCEPT !.healthCheckInterval = 0,
             !.maintenanceInterval = 0,
             !.health = @ \ {iv.healthCheckInterval},
             !.maintenance = @ \ {iv.maintenanceInterval}]

\* close, lines 93-108: quit on the stored client and subscriber.
quitClients(r) ==
  [r EXCEPT !.client = 0,
            !.subscriber = 0,
            !.live = @ \ {r.client, r.subscriber}]

\* run, getStatus or sendInterrupt finds isInitialized false and calls
\* initialize, which runs up to its first await: connect returns at once when
\* isConnected, else makes the clients and awaits client.connect().
InitializeCall(c) ==
  /\ opsLeft > 0
  /\ boot[c] = BootIdle
  /\ ~isInitialized
  /\ opsLeft' = opsLeft - 1
  /\ IF isConnected
     THEN /\ boot' = [boot EXCEPT ![c] = "start"]
          /\ redis' = redis
     ELSE /\ boot' = [boot EXCEPT ![c] = "awaitClient"]
          /\ redis' = makeClients(redis)
  /\ UNCHANGED <<bootFrame, closing, isRunning, isInitialized, isConnected, intervals>>

\* connect, line 79: client.connect() has resolved; connect() is called on
\* the subscriber the field holds now, and throws when close has made the
\* field null.
ConnectSubscriber(c) ==
  /\ boot[c] = "awaitClient"
  /\ IF redis.subscriber = 0
     THEN /\ boot' = [boot EXCEPT ![c] = BootIdle]
          /\ redis' = redis
     ELSE /\ boot' = [boot EXCEPT ![c] = "awaitSubscriber"]
          /\ redis' = [redis EXCEPT !.live = @ \cup {redis.subscriber}]
  /\ UNCHANGED <<bootFrame, closing, opsLeft, isRunning, isInitialized, isConnected,
                 intervals>>

\* connect, line 79: connect() on a subscriber that another connect call is
\* already connecting may reject; initialize then rejects.
ConnectRejects(c) ==
  /\ boot[c] = "awaitClient"
  /\ redis.subscriber \in redis.live
  /\ boot' = [boot EXCEPT ![c] = BootIdle]
  /\ UNCHANGED <<bootFrame, closing, opsLeft, isRunning, isInitialized, isConnected,
                 redis, intervals>>

\* connect, lines 81-87: subscriber.connect() has resolved; the message
\* handler is set and isConnected becomes true.
ConnectDone(c) ==
  /\ boot[c] = "awaitSubscriber"
  /\ isConnected' = TRUE
  /\ boot' = [boot EXCEPT ![c] = "start"]
  /\ UNCHANGED <<bootFrame, closing, opsLeft, isRunning, isInitialized, redis,
                 intervals>>

\* initialize, lines 57-62, and start, lines 65-68: start returns at once
\* when isRunning, else awaits isDockerAvailable.
PoolStartCall(c) ==
  /\ boot[c] = "start"
  /\ boot' = [boot EXCEPT ![c] = IF isRunning THEN "started" ELSE "dockerCheck"]
  /\ UNCHANGED <<bootFrame, closing, opsLeft, isRunning, isInitialized, isConnected,
                 redis, intervals>>

\* start, lines 68-74: Docker is available and syncState is awaited, or it is
\* not and start throws.
DockerChecked(c, dockerOk) ==
  /\ boot[c] = "dockerCheck"
  /\ boot' = [boot EXCEPT ![c] = IF dockerOk THEN "sync" ELSE BootIdle]
  /\ UNCHANGED <<bootFrame, closing, opsLeft, isRunning, isInitialized, isConnected,
                 redis, intervals>>

\* start, lines 76-91: syncState has resolved (the registry is empty), both
\* intervals are set, isRunning becomes true and ensureWarmPool is awaited.
PoolStartIntervals(c) ==
  /\ boot[c] = "sync"
  /\ intervals' = setIntervals(intervals)
  /\ isRunning' = TRUE
  /\ boot' = [boot EXCEPT ![c] = "started"]
  /\ UNCHANGED <<bootFrame, closing, opsLeft, isInitialized, isConnected, redis>>

\* initialize, line 64: start has resolved.
InitializeDone(c) ==
  /\ boot[c] = "started"
  /\ isInitialized' = TRUE
  /\ boot' = [boot EXCEPT ![c] = BootIdle]
  /\ UNCHANGED <<bootFrame, closing, opsLeft, isRunning, isConnected, redis, intervals>>

\* DockerCCPoolManager.stop, lines 97-111.
PoolStop ==
  /\ opsLeft > 0
  /\ isRunning
  /\ opsLeft' = opsLeft - 1
  /\ isRunning' = FALSE
  /\ intervals' = clearIntervals(intervals)
  /\ UNCHANGED <<bootFrame, closing, boot, isInitialized, isConnected, redis>>

\* DockerCCRunner.shutdown up to the await of poolManager.shutdown, which
\* runs stop.
ShutdownCall ==
  /\ opsLeft > 0
  /\ isInitialized
  /\ closing = FALSE
  /\ opsLeft' = opsLeft - 1
  /\ closing' = TRUE
  /\ isRunning' = FALSE
  /\ intervals' = IF isRunning THEN clearIntervals(intervals) ELSE intervals
  /\ UNCHANGED <<bootFrame, boot, isInitialized, isConnected, redis>>

\* DockerCCRunner.shutdown, lines 209-211: the pool manager's shutdown has
\* resolved (it tracks no container); close quits the stored connections when
\* isConnected, and isInitialized becomes false.
ShutdownClose ==
  /\ closing
  /\ closing' = FALSE
  /\ redis' = IF isConnected THEN quitClients(redis) ELSE redis
  /\ isConnected' = FALSE
  /\ isInitialized' = FALSE
  /\ UNCHANGED <<bootFrame, opsLeft, boot, isRunning, intervals>>

\* ------------------------------------------------------------ StreamParser

\* The characters of a stream: the two braces, the string delimiter, the
\* member separator and a digit.
Alphabet == {"{", "}", "\"", ":", "1"}

RECURSIVE Join(_)
Join(chars) == IF chars = <<>> THEN "" ELSE chars[1] \o Join(Tail(chars))

\* JSON.parse throws.
ParseFail == [ok |-> FALSE, next |-> 0, value |-> <<>>]

\* The position of the first string delimiter at or after position i, or 0.
RECURSIVE NextQuote(_, _)
NextQuote(text, i) ==
  IF i > Len(text) THEN 0
  ELSE IF text[i] = "\"" THEN i ELSE NextQuote(text, i + 1)

\* The position after the digits that start at position i.
RECURSIVE DigitsEnd(_, _)
DigitsEnd(text, i) ==
  IF i > Len(text) \/ text[i] # "1" THEN i ELSE DigitsEnd(text, i + 1)

\* A JSON string that starts at position i.
ParseString(text, i) ==
  LET j == NextQuote(text, i + 1)
  IN IF j = 0 THEN ParseFail
     ELSE [ok |-> TRUE, next |-> j + 1,
           value |-> <<"string:" \o Join(SubSeq(text, i + 1, j - 1))>>]

\* A JSON value that starts at position i: a string, a number, the empty
\* object or an object of one member.  The decoded value is the sequence of
\* its parts.
RECURSIVE ParseValue(_, _)
ParseValue(text, i) ==
  IF i > Len(text) THEN ParseFail
  ELSE IF text[i] = "\"" THEN ParseString(text, i)
  ELSE IF text[i] = "1"
  THEN [ok |-> TRUE, next |-> DigitsEnd(text, i),
        value |-> <<"number:" \o Join(SubSeq(text, i, DigitsEnd(text, i) - 1))>>]
  ELSE IF text[i] = "{" /\ i + 1 <= Len(text) /\ text[i + 1] = "}"
  THEN [ok |-> TRUE, next |-> i + 2, value |-> <<"object", "end">>]
  ELSE IF text[i] = "{" /\ i + 1 <= Len(text) /\ text[i + 1] = "\""
  THEN LET key == ParseString(text, i + 1)
       IN IF ~key.ok \/ key.next > Len(text) \/ text[key.next] # ":"
          THEN ParseFail
          ELSE LET v == ParseValue(text, key.next + 1)
               IN IF ~v.ok \/ v.next > Len(text) \/ text[v.next] # "}"
                  THEN ParseFail
                  ELSE [ok |-> TRUE, next |-> v.next + 1,
                        value |-> <<"object", "key-" \o key.value[1]>>
                                    \o v.value \o <<"end">>]
  ELSE ParseFail

\* JSON.parse(jsonStr): the whole text is one value, or it throws.
JSONparse(jsonStr) ==
  LET r == ParseValue(jsonStr, 1)
  IN IF r.ok /\ r.next = Len(jsonStr) + 1 THEN r ELSE ParseFail

\* new StreamParser()
FreshParser ==
  [buffer |-> <<>>, inJson |-> FALSE, braceCount |-> 0, scanPosition |-> 0]

\* String.prototype.indexOf(char): 0-based, -1 when there is none.
RECURSIVE indexOfFrom(_, _, _)
indexOfFrom(buffer, char, i) ==
  IF i > Len(buffer) THEN 0 - 1
  ELSE IF buffer[i] = char THEN i - 1 ELSE indexOfFrom(buffer, char, i + 1)

\* indexOf that always answers the buffer's start.
indexOfStart(buffer, char) == 0
indexOf(buffer, char) == indexOfFrom(buffer, char, 1)

\* feed, lines 49-73: the loop over the buffer from 0-based index i with
\* braceCount count, up to the closing brace that brings the count to 0.
RECURSIVE CountBraces(_, _, _)
CountBraces(buffer, i, count) ==
  IF i >= Len(buffer)
  THEN [foundComplete |-> FALSE, i |-> i, braceCount |-> count]
  ELSE LET char == buffer[i + 1]
           c == IF char = "{" THEN count + 1
                ELSE IF char = "}" THEN count - 1 ELSE count
       IN IF char = "}" /\ c = 0
          THEN [foundComplete |-> TRUE, i |-> i, braceCount |-> c]
          ELSE CountBraces(buffer, i + 1, c)

\* Where the loop starts: this.scanPosition.
ScanStartAtZero(p) == 0
ScanStart(p) == p.scanPosition

\* feed, lines 64-69: the slice is decoded and pushed, or skipped.
EmitUndecoded(results, jsonStr) == Append(results, <<Join(jsonStr)>>)
Emit(results, jsonStr) ==
  IF JSONparse(jsonStr).ok
  THEN Append(results, JSONparse(jsonStr).value) ELSE results

\* feed, lines 32-80: the while loop.
RECURSIVE FeedLoop(_, _)
FeedLoop(p, results) ==
  IF Len(p.buffer) = 0 THEN [parser |-> p, results |-> results]
  ELSE IF ~p.inJson /\ indexOf(p.buffer, "{") = 0 - 1
  THEN [parser |-> [p EXCEPT !.buffer = <<>>, !.scanPosition = 0],
        results |-> results]
  ELSE LET q == IF p.inJson THEN p
                ELSE [buffer |-> Slice(p.buffer, indexOf(p.buffer, "{")),
                      inJson |-> TRUE, braceCount |-> 0, scanPosition |-> 0]
           scan == CountBraces(q.buffer, ScanStart(q), q.braceCount)
       IN IF scan.foundComplete
          THEN FeedLoop([buffer |-> Slice(q.buffer, scan.i + 1),
                         inJson |-> FALSE, braceCount |-> scan.braceCount,
                         scanPosition |-> 0],
                        Emit(results, SubSeq(q.buffer, 1, scan.i + 1)))
          ELSE [parser |-> [q EXCEPT !.braceCount = scan.braceCount,
                                     !.scanPosition = Len(q.buffer)],
                results |-> results]

\* StreamParser.feed(data): the parser afterwards and the records returned.
feed(p, data) == FeedLoop([p EXCEPT !.buffer = @ \o data], <<>>)

\* StreamParser.reset()
resetBufferOnly(p) == [p EXCEPT !.buffer = <<>>]
reset(p) ==
  [p EXCEPT !.buffer = <<>>, !.inJson = FALSE, !.braceCount = 0,
            !.scanPosition = 0]

\* StreamParser.hasPending()
hasPending(p) == Len(p.buffer) > 0

\* Every string of at most MaxLen characters.
AllStrings == UNION {[1..n -> Alphabet] : n \in 0..MaxLen}

\* Valid records, as the agent writes them: the empty object, objects with a
\* number, with a nested object, and with a string value that holds a brace.
Records ==
  {<<"{", "}">>,
   <<"{", "\"", "1", "\"", ":", "1", "}">>,
   <<"{", "\"", "1", "\"", ":", "{", "}", "}">>,
   <<"{", "\"", "1", "\"", ":", "\"", "}", "\"", "}">>,
   <<"{", "\"", "1", "\"", ":", "\"", "{", "\"", "}">>}

\* What stands before and between records: nothing, a digit, a brace of
\* either kind, or a brace-balanced slice that is no JSON.
Noise == {<<>>, <<"1">>, <<"}">>, <<"{">>, <<"{", "1", "}">>}

Piece(kind, text) == [kind |-> kind, text |-> text]

\* The streams of n records, each with noise before it.
RECURSIVE Composed(_)
Composed(n) ==
  IF n = 0 THEN {<<>>}
  ELSE {front \o <<Piece("noise", noise), Piece("record", record)>> :
          front \in Composed(n - 1), noise \in Noise, record \in Records}

RECURSIVE TextOf(_)
TextOf(ps) == IF ps = <<>> THEN <<>> ELSE ps[1].text \o TextOf(Tail(ps))

\* The parser has not been made: the state of the other specifications.
NoStream ==
  /\ stream = <<>>
  /\ pieces = <<>>
  /\ fed = 0
  /\ chunks = 0
  /\ parser = FreshParser
  /\ emitted = <<>>
  /\ resets = 0

\* parser.feed(chunk) with the next k characters of the stream.
Feed(k) ==
  LET r == feed(parser, SubSeq(stream, fed + 1, fed + k))
  IN /\ fed + k <= Len(stream)
     /\ parser' = r.parser
     /\ emitted' = emitted \o r.results
     /\ fed' = fed + k
     /\ chunks' = chunks + 1
     /\ UNCHANGED <<poolVars, runVars, subscriberChannels, interruptQueue,
                    regVars, faultVars, hostVars, stream, pieces, resets>>

\* parser.reset(); the stream is then fed again from its start.
Reset ==
  /\ resets < MaxResets
  /\ fed > 0
  /\ parser' = reset(parser)
  /\ emitted' = <<>>
  /\ fed' = 0
  /\ chunks' = 0
  /\ resets' = resets + 1
  /\ UNCHANGED <<poolVars, runVars, subscriberChannels, interruptQueue,
                 regVars, faultVars, hostVars, stream, pieces>>

\* ------------------------------------------------------------ specification

PoolConfigs ==
  {[pool |-> [minWarm |-> w, maxTotal |-> t, maxPerAgent |-> a],
    timeouts |-> Timeouts, redis |-> [keyPrefix |-> DefaultKeyPrefix]] :
     w \in {0, 1}, t \in {1, 2}, a \in {1}}

InitPool(configs, mode, ops) ==
  /\ config \in configs
  /\ sched = mode
  /\ now = 0
  /\ opsLeft = ops
  /\ isRunning = FALSE
  /\ state = EmptyState
  /\ registry = <<>>
  /\ docker = [n \in Names |-> "absent"]
  /\ nextWarm = 0
  /\ gc = [s \in Sessions |-> GcIdle]
  /\ gcRes = [s \in Sessions |-> NoResult]
  /\ rel = [s \in Sessions |-> RelIdle]
  /\ health = HealthIdle
  /\ maint = MaintIdle
  /\ starter = StarterIdle
  /\ topup = [o \in Owners |-> TopupIdle]
  /\ InitRun
  /\ NoStream

Init == InitPool(PoolConfigs, "interleaved", MaxRaceOps)

NextPool ==
  \/ \E s \in Sessions, a \in AgentIds \cup {Undefined} : GetContainerCall(s, a)
  \/ \E s \in Sessions : GetContainerLookup(s)
  \/ \E s \in Sessions : GetContainerInspect(s)
  \/ \E s \in Sessions : GetContainerLimitAgent(s)
  \/ \E s \in Sessions : GetContainerLimitTotal(s)
  \/ \E s \in Sessions : GetContainerListWarm(s)
  \/ \E s \in Sessions : GetContainerAssign(s)
  \/ \E s \in Sessions : GetContainerCreate(s)
  \/ \E s \in Sessions : GetContainerRegister(s)
  \/ \E s \in Sessions, r \in BOOLEAN : ReleaseCall(s, r)
  \/ \E s \in Sessions : ReleaseUnassign(s)
  \/ \E s \in Sessions : ReleaseStop(s)
  \/ \E s \in Sessions : ReleaseUnregister(s)
  \/ \E o \in Owners : TopupCreate(o)
  \/ \E o \in Owners : TopupRegister(o)
  \/ HealthStart
  \/ HealthInspect
  \/ HealthStop
  \/ HealthUnregister
  \/ HealthMark
  \/ MaintStart
  \/ MaintStop
  \/ MaintUnregister
  \/ MaintExpired
  \/ StartCall
  \/ StartSync
  \/ StartLoad
  \/ Stop
  \/ Tick
  \/ \E n \in Names, to \in {"exited", "absent"} : ContainerLost(n, to)

Next == NextPool

Spec == Init /\ [][Next]_vars

\* The same operations, each one running to its end before the next begins.
SeqConfigs ==
  {[pool |-> [minWarm |-> w, maxTotal |-> t, maxPerAgent |-> a],
    timeouts |-> Timeouts, redis |-> [keyPrefix |-> DefaultKeyPrefix]] :
     w \in {0, 1}, t \in {1, 3}, a \in {1, 2}}

InitSeq == InitPool(SeqConfigs, "sequential", MaxOps)

SeqSpec == InitSeq /\ [][Next]_vars

\* The runner over the pool manager: the pool is started, run is called, the
\* containers' wrappers serve their input lists and the health tick runs.
RunConfigs ==
  {[pool |-> [minWarm |-> w, maxTotal |-> 3, maxPerAgent |-> 2],
    timeouts |-> Timeouts, redis |-> [keyPrefix |-> p]] :
     w \in {0, 1}, p \in KeyPrefixes}

InitRunner == InitPool(RunConfigs, "interleaved", MaxRunOps)

NextRun ==
  \/ StartCall
  \/ StartSync
  \/ StartLoad
  \/ \E o \in Owners : TopupCreate(o)
  \/ \E o \in Owners : TopupRegister(o)
  \/ \E s \in RunSessions, a \in AgentIds, t \in RunTimeouts, o \in BOOLEAN :
       RunCall(s, a, t, o)
  \/ \E s \in Sessions : GetContainerLookup(s)
  \/ \E s \in Sessions : GetContainerInspect(s)
  \/ \E s \in Sessions : GetContainerLimitAgent(s)
  \/ \E s \in Sessions : GetContainerLimitTotal(s)
  \/ \E s \in Sessions : GetContainerListWarm(s)
  \/ \E s \in Sessions : GetContainerAssign(s)
  \/ \E s \in Sessions : GetContainerCreate(s)
  \/ \E s \in Sessions : GetContainerRegister(s)
  \/ \E s \in Sessions : RunGotContainer(s)
  \/ \E s \in Sessions : RunSubscribed(s)
  \/ \E s \in Sessions : RunSendInput(s)
  \/ \E s \in Sessions : RunGetResult(s)
  \/ \E s \in Sessions : RunPollState(s)
  \/ \E s \in Sessions : RunFinalResult(s)
  \/ \E s \in Sessions : RunWake(s)
  \/ \E s \in Sessions : RunReturn(s)
  \/ \E s \in Sessions : RunSubscribeFails(s)
  \/ \E s \in Sessions : RunFails(s)
  \/ \E s \in Sessions : RunUnsubscribed(s)
  \/ \E s \in RunSessions, y \in InterruptTypes : SendInterrupt(s, y)
  \/ \E n \in Names : WrapperBoot(n)
  \/ \E n \in Names : WrapperTakesInput(n)
  \/ \E n \in Names, r \in {"success", "error"} : WrapperPublishes(n, r)
  \/ \E n \in Names : WrapperShutdown(n)
  \/ \E k \in BrokerKeys : ResultExpires(k)
  \/ HealthStart
  \/ HealthInspect
  \/ HealthStop
  \/ HealthUnregister
  \/ HealthMark
  \/ Tick

RunSpec == InitRunner /\ [][NextRun]_vars

\* The registry's mutating functions, called on documents drawn from
\* InitialRegistries by callers whose reads and writes may overlap.
InitReg ==
  /\ config \in {c \in PoolConfigs : c.pool.minWarm = 0 /\ c.pool.maxTotal = 1}
  /\ sched = "interleaved"
  /\ now = 0
  /\ opsLeft = MaxRegOps
  /\ isRunning = FALSE
  /\ state = EmptyState
  /\ registry \in InitialRegistries
  /\ docker = [n \in Names |-> "absent"]
  /\ nextWarm = 0
  /\ gc = [s \in Sessions |-> GcIdle]
  /\ gcRes = [s \in Sessions |-> NoResult]
  /\ rel = [s \in Sessions |-> RelIdle]
  /\ health = HealthIdle
  /\ maint = MaintIdle
  /\ starter = StarterIdle
  /\ topup = [o \in Owners |-> TopupIdle]
  /\ InitRun
  /\ NoStream

NextReg ==
  \/ \E p \in RegProcs, m \in RegMutations : RegistryRead(p, m)
  \/ \E p \in RegProcs : RegistryWrite(p)
  \/ Tick

RegSpec == InitReg /\ [][NextReg]_vars

\* --------------------------------------------------- per-container health

\* What a health-monitor or state-hash step leaves alone.
checkFrame ==
  <<config, sched, opsLeft, isRunning, state, registry, docker, nextWarm, gc,
    gcRes, rel, health, maint, starter, topup, runVars, subscriberChannels,
    interruptQueue, regVars, faultVars, parseVars, outVars, bootVars, shut,
    pair, outputCallback>>

\* The values of ContainerStatus.
ContainerStatuses ==
  {"creating", "starting", "idle", "running", "stopping", "stopped", "failed"}

\* getSessionState, lines 217-233: null for a hash without fields, else the
\* status and last_heartbeat fields as they are.
getSessionState(sessionKey, hash) ==
  IF hash = NoHash THEN NoSessionState
  ELSE [sessionId |-> sessionKey, status |-> hash.status,
        lastHeartbeat |-> hash.last_heartbeat]

\* checkContainer, lines 138-174, at time t.
checkContainer(hasClient, sessionKey, hash, t) ==
  LET status == getSessionState(sessionKey, hash)
      lastHeartbeatAgeMs ==
        IF status.lastHeartbeat # NoBeat THEN t - status.lastHeartbeat ELSE NoAge
      staleThreshold == config.timeouts.healthIntervalMs * 3
      isStale == lastHeartbeatAgeMs # NoAge /\ lastHeartbeatAgeMs > staleThreshold
      healthy == status.status \in {"idle", "running"} /\ ~isStale
  IN IF ~hasClient THEN Unhealthy
     ELSE IF status = NoSessionState THEN Unhealthy
     ELSE [healthy |-> healthy, status |-> status,
           lastHeartbeatAgeMs |-> lastHeartbeatAgeMs, isStale |-> isStale]

\* setRedisClient, lines 63-65.
SetRedisClient ==
  /\ ~monitorClient
  /\ monitorClient' = TRUE
  /\ UNCHANGED <<checkFrame, now, stateHash, checked>>

\* A call of checkContainer.
CheckContainerCall(s) ==
  /\ checked' = [checked EXCEPT ![s] = checkContainer(monitorClient, s, stateHash[s], now)]
  /\ UNCHANGED <<checkFrame, now, stateHash, monitorClient>>

\* The host's updateSessionState, lines 325-342: the fields of the partial
\* state that are set are written, the others are left as they are.
UpdateSessionState(s, status, beat) ==
  /\ status # Undefined \/ beat # NoBeat
  /\ stateHash' = [stateHash EXCEPT ![s] =
       [status |-> IF status # Undefined THEN status ELSE @.status,
        last_heartbeat |-> IF beat # NoBeat THEN beat ELSE @.last_heartbeat]]
  /\ UNCHANGED <<checkFrame, now, monitorClient, checked>>

\* The wrapper's updateState, lines 142-153: status and last_heartbeat.  It
\* writes the hash the host reads when the host's prefix is the wrapper's.
WrapperUpdateState(s, status) ==
  /\ HostKeys(s).state = WrapperKeys(s).state
  /\ stateHash' = [stateHash EXCEPT ![s] = [status |-> status, last_heartbeat |-> now]]
  /\ UNCHANGED <<checkFrame, now, monitorClient, checked>>

\* HealthReporter.report, lines 69-82: last_heartbeat alone.
ReporterReport(s) ==
  /\ HostKeys(s).state = WrapperKeys(s).state
  /\ stateHash' = [stateHash EXCEPT ![s].last_heartbeat = now]
  /\ UNCHANGED <<checkFrame, now, monitorClient, checked>>

\* The state key's time to live runs out, or the session's keys are deleted.
StateExpires(s) ==
  /\ stateHash[s] # NoHash
  /\ stateHash' = [stateHash EXCEPT ![s] = NoHash]
  /\ UNCHANGED <<checkFrame, now, monitorClient, checked>>

\* A millisecond passes.
CheckClock ==
  /\ now < MaxCheckClock
  /\ now' = now + 1
  /\ UNCHANGED <<checkFrame, sideVars>>

\* ------------------------------------------- overlapping run calls

\* The session key the overlapping calls are made on.
PairSession == "s1"

\* What the subscription steps of a run call leave alone.
pairFrame ==
  <<poolVars, brokerInput, brokerResult, brokerState, wrap, run, runRes,
    nextInput, interruptQueue, regVars, faultVars, parseVars, delivered,
    bootVars, shut, stateHash, monitorClient, checked>>

\* run, line 122, and subscribeOutput, lines 152-164: the call's callback is
\* stored in the subscriptions Map under the session key, up to the await of
\* subscriber.subscribe.
PairSubscribeStore(c) ==
  /\ pair[c].pc = "idle"
  /\ subscriptions' = subscriptions \cup {PairSession}
  /\ outputCallback' = [outputCallback EXCEPT ![PairSession] = c]
  /\ pair' = [pair EXCEPT ![c].pc = "subscribing"]
  /\ UNCHANGED <<pairFrame, subscriberChannels, streamed, inbound>>

\* subscribeOutput, line 167: the subscriber connection is subscribed to the
\* output channel; run goes on to sendInput and waitForResult.
PairSubscribed(c) ==
  /\ pair[c].pc = "subscribing"
  /\ subscriberChannels' = subscriberChannels \cup {getSessionRedisKeys(PairSession)}
  /\ pair' = [pair EXCEPT ![c].pc = "running"]
  /\ UNCHANGED <<pairFrame, subscriptions, outputCallback, streamed, inbound>>

\* The wrapper of the session's container publishes its next output record.
PairPublish ==
  LET key == PublisherKey(PairSession)
      position == Len(streamed[key]) + 1
  IN /\ position <= MaxPairOutputs
     /\ streamed' = [streamed EXCEPT ![key] = Append(@, "assistant")]
     /\ inbound' = publishOutput(inbound, subscriberChannels, key, position)
     /\ UNCHANGED <<pairFrame, subscriptions, subscriberChannels, outputCallback, pair>>

\* handleSubscriptionMessage, lines 179-192, for the oldest message not yet
\* handled: the callback the Map holds for the channel is invoked.
PairHandle ==
  /\ inbound # <<>>
  /\ LET m == Head(inbound)
         subs == handleSubscriptionMessage(subscriptions, m.channel)
     IN pair' = IF subs = {}
                THEN pair
                ELSE [pair EXCEPT ![outputCallback[CHOOSE s \in subs : TRUE]].got =
                        runOutputCallback(@, m.payload)]
  /\ inbound' = Tail(inbound)
  /\ UNCHANGED <<pairFrame, subscriptions, subscriberChannels, outputCallback, streamed>>

\* run's finally, lines 165-169, and the unsubscribe function, line 171: the
\* Map's entry for the session key is deleted, up to the await of
\* subscriber.unsubscribe.
PairUnsubscribeDelete(c) ==
  /\ pair[c].pc = "running"
  /\ subscriptions' = subscriptions \ {PairSession}
  /\ outputCallback' = [outputCallback EXCEPT ![PairSession] = 0]
  /\ pair' = [pair EXCEPT ![c].pc = "unsubscribing"]
  /\ UNCHANGED <<pairFrame, subscriberChannels, streamed, inbound>>

\* The unsubscribe function, line 172: the subscriber connection leaves the
\* output channel, and run returns.
PairUnsubscribed(c) ==
  /\ pair[c].pc = "unsubscribing"
  /\ subscriberChannels' = subscriberChannels \ {getSessionRedisKeys(PairSession)}
  /\ pair' = [pair EXCEPT ![c].pc = "done"]
  /\ UNCHANGED <<pairFrame, subscriptions, outputCallback, streamed, inbound>>

\* The output records of a run: the pool is started, run is called with and
\* without onOutput, the container's wrapper streams its messages and the
\* host's subscriber connection handles what the broker sends it.
OutConfigs ==
  {[pool |-> [minWarm |-> 0, maxTotal |-> 1, maxPerAgent |-> 1],
    timeouts |-> Timeouts, redis |-> [keyPrefix |-> p]] : p \in KeyPrefixes}

InitOut == InitPool(OutConfigs, "interleaved", MaxOutOps)

NextOut ==
  \/ StartCall
  \/ StartSync
  \/ StartLoad
  \/ \E s \in RunSessions, a \in AgentIds, t \in RunTimeouts, o \in BOOLEAN :
       RunCall(s, a, t, o)
  \/ \E s \in Sessions : GetContainerLookup(s)
  \/ \E s \in Sessions : GetContainerLimitAgent(s)
  \/ \E s \in Sessions : GetContainerLimitTotal(s)
  \/ \E s \in Sessions : GetContainerListWarm(s)
  \/ \E s \in Sessions : GetContainerCreate(s)
  \/ \E s \in Sessions : GetContainerRegister(s)
  \/ \E s \in Sessions : RunGotContainer(s)
  \/ \E s \in Sessions : RunSubscribed(s)
  \/ \E s \in Sessions : RunSendInput(s)
  \/ \E s \in Sessions : RunGetResult(s)
  \/ \E s \in Sessions : RunPollState(s)
  \/ \E s \in Sessions : RunWake(s)
  \/ \E s \in Sessions : RunReturn(s)
  \/ \E s \in Sessions : RunUnsubscribed(s)
  \/ \E n \in Names : WrapperBoot(n)
  \/ \E n \in Names : WrapperTakesInput(n)
  \/ \E n \in Names, m \in MessageTypes : WrapperStreams(n, m)
  \/ \E n \in Names, r \in {"success", "error"} : WrapperPublishes(n, r)
  \/ HostHandlesMessage
  \/ Tick

OutSpec == InitOut /\ [][NextOut]_vars

\* One runner being initialized by overlapping run, getStatus and
\* sendInterrupt calls, with stop and shutdown calls between them.  The
\* registry is empty and the pool keeps no warm container.
BootConfigs ==
  {c \in PoolConfigs : c.pool.minWarm = 0 /\ c.pool.maxTotal = 1}

InitBoot == InitPool(BootConfigs, "interleaved", MaxBootOps)

NextBoot ==
  \/ \E c \in Callers : InitializeCall(c)
  \/ \E c \in Callers : ConnectSubscriber(c)
  \/ \E c \in Callers : ConnectRejects(c)
  \/ \E c \in Callers : ConnectDone(c)
  \/ \E c \in Callers : PoolStartCall(c)
  \/ \E c \in Callers, dockerOk \in BOOLEAN : DockerChecked(c, dockerOk)
  \/ \E c \in Callers : PoolStartIntervals(c)
  \/ \E c \in Callers : InitializeDone(c)
  \/ PoolStop
  \/ ShutdownCall
  \/ ShutdownClose

BootSpec == InitBoot /\ [][NextBoot]_vars

\* The pool manager shut down while work is in flight: the pool is started,
\* getContainer is called and shutdown is the last call.
ShutConfigs ==
  {[pool |-> [minWarm |-> w, maxTotal |-> 3, maxPerAgent |-> 2],
    timeouts |-> Timeouts, redis |-> [keyPrefix |-> DefaultKeyPrefix]] :
     w \in {0, 1}}

InitShut == InitPool(ShutConfigs, "interleaved", MaxShutOps)

NextShut ==
  \/ StartCall
  \/ StartSync
  \/ StartLoad
  \/ \E o \in Owners : TopupCreate(o)
  \/ \E o \in Owners : TopupRegister(o)
  \/ \E s \in Sessions, a \in AgentIds : GetContainerCall(s, a)
  \/ \E s \in Sessions : GetContainerLookup(s)
  \/ \E s \in Sessions : GetContainerLimitAgent(s)
  \/ \E s \in Sessions : GetContainerLimitTotal(s)
  \/ \E s \in Sessions : GetContainerListWarm(s)
  \/ \E s \in Sessions : GetContainerAssign(s)
  \/ \E s \in Sessions : GetContainerCreate(s)
  \/ \E s \in Sessions : GetContainerRegister(s)
  \/ PoolShutdownCall
  \/ PoolShutdownNext
  \/ PoolShutdownStop
  \/ PoolShutdownUnregister

ShutSpec == InitShut /\ [][NextShut]_vars

\* start on a registry document and a runtime that may disagree: the
\* documents of InitialRegistries, and each of their two containers running,
\* exited or absent in the runtime.  The warm key of the document is used.
InitialRuntimes ==
  {[n \in Names |-> IF n \in RegNames THEN d[n] ELSE "absent"] :
     d \in [RegNames -> {"absent", "running", "exited"}]}

InitSync ==
  /\ config \in {c \in SeqConfigs : c.pool.maxTotal = 3 /\ c.pool.maxPerAgent = 2}
  /\ sched = "sequential"
  /\ now = 0
  /\ opsLeft = MaxSyncOps
  /\ isRunning = FALSE
  /\ state = EmptyState
  /\ registry \in InitialRegistries
  /\ docker \in InitialRuntimes
  /\ nextWarm = 1
  /\ gc = [s \in Sessions |-> GcIdle]
  /\ gcRes = [s \in Sessions |-> NoResult]
  /\ rel = [s \in Sessions |-> RelIdle]
  /\ health = HealthIdle
  /\ maint = MaintIdle
  /\ starter = StarterIdle
  /\ topup = [o \in Owners |-> TopupIdle]
  /\ InitRun
  /\ NoStream

NextSync ==
  \/ StartCall
  \/ StartSync
  \/ StartLoad
  \/ \E o \in Owners : TopupCreate(o)
  \/ \E o \in Owners : TopupRegister(o)
  \/ Stop

SyncSpec == InitSync /\ [][NextSync]_vars

\* The health monitor asked about sessions whose state hash the host, the
\* wrapper and its health reporter write while time passes.
CheckConfigs ==
  {[pool |-> [minWarm |-> 0, maxTotal |-> 3, maxPerAgent |-> 2],
    timeouts |-> Timeouts, redis |-> [keyPrefix |-> p]] : p \in KeyPrefixes}

InitCheck == InitPool(CheckConfigs, "sequential", 0)

\* The session the monitor is asked about.
CheckSessions == {"s1"}

NextCheck ==
  \/ SetRedisClient
  \/ \E s \in CheckSessions : CheckContainerCall(s)
  \/ \E s \in CheckSessions, status \in {Undefined, "idle", "running", "failed"},
        beat \in {NoBeat} \cup 0..now : UpdateSessionState(s, status, beat)
  \/ \E s \in CheckSessions, status \in {"idle", "running", "failed"} :
        WrapperUpdateState(s, status)
  \/ \E s \in CheckSessions : ReporterReport(s)
  \/ \E s \in CheckSessions : StateExpires(s)
  \/ CheckClock

CheckSpec == InitCheck /\ [][NextCheck]_vars

\* The pool manager's operations one at a time, while the health reporter of
\* the container created for a session publishes its heartbeats.
BeatConfigs ==
  {[pool |-> [minWarm |-> w, maxTotal |-> 3, maxPerAgent |-> 2],
    timeouts |-> Timeouts, redis |-> [keyPrefix |-> WrapperKeyPrefix]] :
     w \in {0, 1}}

InitBeat == InitPool(BeatConfigs, "sequential", MaxBeatOps)

\* HealthReporter.start, lines 39-45, and its interval: the container's
\* reporter reports for as long as the container runs.
WrapperHeartbeat(s) ==
  /\ docker[generateContainerName(s)] = "running"
  /\ stateHash[s].last_heartbeat # now
  /\ ReporterReport(s)

NextBeat ==
  \/ NextPool
  \/ \E s \in CheckSessions : WrapperHeartbeat(s)

BeatSpec == InitBeat /\ [][NextBeat]_vars

\* Two run calls with output callbacks on one session key, while the
\* session's wrapper publishes output records.
PairConfigs ==
  {[pool |-> [minWarm |-> 0, maxTotal |-> 3, maxPerAgent |-> 2],
    timeouts |-> Timeouts, redis |-> [keyPrefix |-> p]] : p \in KeyPrefixes}

InitPair == InitPool(PairConfigs, "interleaved", 0)

NextPair ==
  \/ \E c \in RunCalls : PairSubscribeStore(c)
  \/ \E c \in RunCalls : PairSubscribed(c)
  \/ PairPublish
  \/ PairHandle
  \/ \E c \in RunCalls : PairUnsubscribeDelete(c)
  \/ \E c \in RunCalls : PairUnsubscribed(c)

PairSpec == InitPair /\ [][NextPair]_vars

\* One StreamParser fed a stream in chunks of every size: every string of at
\* most MaxLen characters, and the streams composed of at most MaxRecords
\* records with noise before each.
InitParse ==
  /\ config \in {c \in PoolConfigs : c.pool.minWarm = 0 /\ c.pool.maxTotal = 1}
  /\ sched = "sequential"
  /\ now = 0
  /\ opsLeft = 0
  /\ isRunning = FALSE
  /\ state = EmptyState
  /\ registry = <<>>
  /\ docker = [n \in Names |-> "absent"]
  /\ nextWarm = 0
  /\ gc = [s \in Sessions |-> GcIdle]
  /\ gcRes = [s \in Sessions |-> NoResult]
  /\ rel = [s \in Sessions |-> RelIdle]
  /\ health = HealthIdle
  /\ maint = MaintIdle
  /\ starter = StarterIdle
  /\ topup = [o \in Owners |-> TopupIdle]
  /\ InitRun
  /\ \/ stream \in AllStrings /\ pieces = <<>>
     \/ /\ pieces \in UNION {Composed(n) : n \in 1..MaxRecords}
        /\ stream = TextOf(pieces)
  /\ fed = 0
  /\ chunks = 0
  /\ parser = FreshParser
  /\ emitted = <<>>
  /\ resets = 0

NextParse ==
  \/ \E k \in 1..(Len(stream) - fed) : Feed(k)
  \/ Reset

ParseSpec == InitParse /\ [][NextParse]_vars

\* The pool manager, one operation at a time, with registry functions that
\* may reject.
FaultConfigs ==
  {[pool |-> [minWarm |-> w, maxTotal |-> t, maxPerAgent |-> 2],
    timeouts |-> Timeouts, redis |-> [keyPrefix |-> DefaultKeyPrefix]] :
     w \in {0, 1}, t \in {1, 2}}

InitFault == InitPool(FaultConfigs, "sequential", MaxFaultOps)

NextFault ==
  \/ StartCall
  \/ StartSync
  \/ StartLoad
  \/ \E o \in Owners : TopupCreate(o)
  \/ \E o \in Owners : TopupRegister(o)
  \/ \E s \in Sessions, a \in AgentIds : GetContainerWatched(s, a)
  \/ \E s \in Sessions : GetContainerLookup(s)
  \/ \E s \in Sessions : GetContainerInspect(s)
  \/ \E s \in Sessions : GetContainerLimitAgent(s)
  \/ \E s \in Sessions : GetContainerLimitTotal(s)
  \/ \E s \in Sessions : GetContainerListWarm(s)
  \/ \E s \in Sessions : GetContainerAssign(s)
  \/ \E s \in Sessions : GetContainerCreate(s)
  \/ \E s \in Sessions : GetContainerRegister(s)
  \/ \E s \in Sessions, r \in BOOLEAN : ReleaseWatched(s, r)
  \/ \E s \in Sessions : ReleaseUnassign(s)
  \/ \E s \in Sessions : ReleaseStop(s)
  \/ \E s \in Sessions : ReleaseUnregister(s)
  \/ \E s \in Sessions : GetContainerAssignFails(s)
  \/ \E s \in Sessions : GetContainerRegisterFails(s)
  \/ \E s \in Sessions : ReleaseUnassignFails(s)
  \/ \E s \in Sessions : ReleaseUnregisterFails(s)

FaultSpec == InitFault /\ [][NextFault]_vars

\* The pool manager once started and never stopped: a bounded number of
\* getContainer and releaseContainer calls, health ticks, clock ticks and
\* lost containers, one operation at a time, while the maintenance timer
\* keeps firing and every awaited step resolves.
LiveConfigs ==
  {[pool |-> [minWarm |-> w, maxTotal |-> t, maxPerAgent |-> 1],
    timeouts |-> Timeouts, redis |-> [keyPrefix |-> DefaultKeyPrefix]] :
     w \in {0, 1}, t \in {1, 2}}

InitLive == InitPool(LiveConfigs, "sequential", MaxLiveOps)

\* The steps in which an awaited call resolves, and the maintenance timer.
LiveProgress ==
  \/ \E s \in Sessions : GetContainerLookup(s)
  \/ \E s \in Sessions : GetContainerInspect(s)
  \/ \E s \in Sessions : GetContainerLimitAgent(s)
  \/ \E s \in Sessions : GetContainerLimitTotal(s)
  \/ \E s \in Sessions : GetContainerListWarm(s)
  \/ \E s \in Sessions : GetContainerAssign(s)
  \/ \E s \in Sessions : GetContainerCreate(s)
  \/ \E s \in Sessions : GetContainerRegister(s)
  \/ \E s \in Sessions : ReleaseUnassign(s)
  \/ \E s \in Sessions : ReleaseStop(s)
  \/ \E s \in Sessions : ReleaseUnregister(s)
  \/ \E o \in Owners : TopupCreate(o)
  \/ \E o \in Owners : TopupRegister(o)
  \/ HealthInspect
  \/ HealthStop
  \/ HealthUnregister
  \/ HealthMark
  \/ MaintTick
  \/ MaintStop
  \/ MaintUnregister
  \/ MaintExpired
  \/ StartSync
  \/ StartLoad

NextLive ==
  \/ StartCall
  \/ \E s \in RunSessions, a \in AgentIds : GetContainerCall(s, a)
  \/ \E s \in RunSessions, r \in BOOLEAN : ReleaseCall(s, r)
  \/ HealthStart
  \/ Tick
  \/ \E n \in Names, to \in {"exited", "absent"} : ContainerLost(n, to)
  \/ LiveProgress

LiveSpec == InitLive /\ [][NextLive]_vars /\ WF_vars(LiveProgress)

\* ------------------------------------------------------------- properties

Range(f) == {f[k] : k \in DOMAIN f}

\* The registry entries of a session key.
EntriesOfSession(sessionKey) ==
  {i \in 1..Len(registry) : registry[i].sessionKey = sessionKey}

\* C1: under any interleaving of the pool's operations, the containers created
\* and not yet destroyed, counted in the in-memory containers map and in the
\* registry, never number more than pool.maxTotal.
C1_TotalWithinMaxTotal ==
  /\ Cardinality(DOMAIN state.containers) <= config.pool.maxTotal
  /\ Len(registry) <= config.pool.maxTotal

\* Two getContainer calls for different session keys and the same agent have
\* overlapped and returned, nothing else was ever asked of the pool, and the
\* total cap leaves room for a second container.
TwoConcurrentCalls(s, t) ==
  /\ s # t
  /\ gc[s].pc = "idle" /\ gc[t].pc = "idle"
  /\ gcRes[s].kind # "none" /\ gcRes[t].kind # "none"
  /\ gcRes[s].raced /\ gcRes[t].raced
  /\ gcRes[s].agentId # Undefined
  /\ gcRes[s].agentId = gcRes[t].agentId
  /\ opsLeft = MaxRaceOps - 2
  /\ config.pool.maxTotal >= 2

\* C2: with maxPerAgent = 1, of two concurrent getContainer calls for two
\* session keys of one agent exactly one returns an assignment, the other
\* fails with the per-agent capacity error, and at most one container is
\* registered for the agent.
C2_OneOfTwoConcurrentCallsWins ==
  \A s, t \in Sessions :
    (config.pool.maxPerAgent = 1 /\ TwoConcurrentCalls(s, t)) =>
      /\ {gcRes[s].kind, gcRes[t].kind} = {"assigned", "errMaxPerAgent"}
      /\ Len(listContainersByAgent(registry, gcRes[s].agentId)) <= 1

\* C3: no container serves two sessions at once: sessionToContainer maps
\* distinct session keys to distinct container names.
C3_SessionMapInjective ==
  \A s, t \in DOMAIN state.sessionToContainer :
    s # t => state.sessionToContainer[s] # state.sessionToContainer[t]

\* C4: the registry holds at most one entry for a non-null session key.
C4_OneRegistryEntryPerSession ==
  \A s \in AllKeys : Cardinality(EntriesOfSession(s)) <= 1

\* The container is the value of sessionToContainer for its session key.
MappedFromItsSession(name) ==
  LET sk == state.containers[name].sessionKey
  IN /\ sk # Null
     /\ MapHas(state.sessionToContainer, sk)
     /\ state.sessionToContainer[sk] = name

\* C5: between operations, every container of the in-memory containers map is
\* either mapped from its session key or in warmPool, and never both.
C5_MappedOrWarmNeverBoth ==
  AllIdle =>
    \A name \in DOMAIN state.containers :
      MappedFromItsSession(name) # (name \in state.warmPool)

\* The registry says the container is unassigned and idle.
RegistryUnassignedIdle(entries, name) ==
  \E i \in 1..Len(entries) :
    /\ entries[i].containerName = name
    /\ entries[i].sessionKey = Null
    /\ entries[i].status = "idle"

\* What releaseContainer leaves of container name in the maps st and the
\* registry entries, on each of its two branches.
ReturnedToPool(st, entries, name) ==
  /\ name \in st.warmPool
  /\ name \notin Range(st.sessionToContainer)
  /\ RegistryUnassignedIdle(entries, name)
  /\ \A i \in 1..Len(entries) :
       entries[i].containerName = name =>
         entries[i].sessionKey = Null /\ entries[i].status = "idle"

AbsentEverywhere(st, entries, name) ==
  /\ name \notin DOMAIN st.containers
  /\ name \notin Range(st.sessionToContainer)
  /\ name \notin st.warmPool
  /\ ~HasEntry(entries, name)

\* The step that ends the releaseContainer call of session s.
ReleaseReturns(s) == rel[s].pc # "idle" /\ rel'[s].pc = "idle"

\* C6: releaseContainer of a mapped session with returnToPool while
\* |warmPool| < minWarm leaves the container in warmPool, unmapped, its
\* registry entry unassigned and idle; under any other condition it leaves the
\* container absent from containers, sessionToContainer, warmPool and the
\* registry.
C6_ReleasePostcondition ==
  [][\A s \in Sessions :
       ReleaseReturns(s) =>
         /\ ~MapHas(state'.sessionToContainer, s)
         /\ IF /\ rel[s].returnToPool
               /\ Cardinality(state.warmPool) < config.pool.minWarm
            THEN ReturnedToPool(state', registry', rel[s].containerName)
            ELSE AbsentEverywhere(state', registry', rel[s].containerName)]_vars

\* A container created for a session sits, released, in the warm pool.
C6_Witness ==
  \E s \in Sessions :
    /\ AllIdle
    /\ ~MapHas(state.sessionToContainer, s)
    /\ ReturnedToPool(state, registry, generateContainerName(s))

\* C7: between operations a container name is in warmPool exactly when its
\* registry entry is unassigned and idle.
C7_WarmPoolMatchesRegistry ==
  AllIdle =>
    \A name \in Names :
      (name \in state.warmPool) <=> RegistryUnassignedIdle(registry, name)

\* C8: a run call that returns a result returns the one published in answer
\* to the input record this call pushed, never the record an earlier turn
\* left behind.
C8_RunReturnsItsOwnTurn ==
  \A s \in Sessions :
    (runRes[s].kind = "returned" /\ runRes[s].value.result # Null) =>
      runRes[s].turn = runRes[s].input

\* The run call of session s has pushed its input record and not yet returned.
InputPushed(s) ==
  run[s].pc \in {"getResult", "pollState", "sleep", "finalResult", "getState"}

\* C9: on a warm hit the input record that run pushes for the session reaches
\* the wrapper of the assigned container: it is in the list that wrapper pops
\* or that wrapper has taken it.
C9_WarmHitInputReachesWrapper ==
  \A s \in Sessions :
    (InputPushed(s) /\ gcRes[s].kind = "assigned" /\ gcRes[s].wasWarm) =>
      LET name == gcRes[s].containerName
          list == brokerInput[PublisherKey(SessionIdOf(name))]
      IN \/ \E i \in 1..Len(list) : list[i] = run[s].input
         \/ wrap[name].input = run[s].input

\* What run returns when waitForResult gave nothing.
NullResult ==
  [result |-> Null, usage |-> ZeroUsage, duration_ms |-> 0, exit_code |-> 0]

\* A step of the run call of session s after getContainer has returned.
RunStep(s) == run[s].pc \notin {"idle", "getContainer"} /\ run'[s] # run[s]

\* waitForResult resolves in this step, from its loop.
WaitResolves(s) ==
  run[s].pc \in {"getResult", "pollState", "sleep"} /\ run'[s].pc = "getState"

\* No result record is stored for the session and its state record does not
\* show stopped or failed.
NothingPublished(s) ==
  /\ ~HasData(brokerResult[getSessionRedisKeys(s)])
  /\ brokerState[getSessionRedisKeys(s)] \notin {"stopped", "failed"}

\* C10: with no result record and a state record that never shows stopped or
\* failed, run returns the null result with zero usage, zero duration and exit
\* code 0, and not before timeoutMs has elapsed; and no step of run after
\* getContainer changes containers, sessionToContainer or warmPool, the
\* registry or the runtime's containers.
C10_TimeoutReturnsNullResult ==
  [][\A s \in Sessions :
       /\ RunStep(s) =>
            state' = state /\ registry' = registry /\ docker' = docker
       /\ (WaitResolves(s) /\ NothingPublished(s)) =>
            /\ run'[s].cause = "timeout"
            /\ run'[s].waited >= run[s].timeoutMs
       /\ (RunStep(s) /\ run[s].cause = "timeout" /\ run'[s].pc = "idle"
             /\ ~run[s].failed /\ ~RunFails(s)) =>
            /\ runRes'[s].kind = "returned"
            /\ runRes'[s].value = NullResult]_vars

\* A run call has timed out and returned.
C10_Witness ==
  \E s \in Sessions :
    /\ runRes[s].kind = "returned"
    /\ runRes[s].cause = "timeout"
    /\ runRes[s].waited >= runRes[s].timeoutMs
    /\ MapHas(state.sessionToContainer, s)

\* The run call of session s pushes its input record in this step.
PushesInput(s) ==
  /\ nextInput' = nextInput + 1
  /\ run'[s].input = nextInput'
  /\ run[s].input # run'[s].input

\* C11: in a run call with an output callback, the subscription to the
\* session's output channel is acknowledged and its callback stored when the
\* input record is pushed, and the channel is still subscribed whenever a
\* wrapper has taken that input record, so that nothing published in answer
\* to it precedes the subscription.
C11_SubscribedBeforeInput ==
  [][\A s \in Sessions :
       /\ (run[s].onOutput /\ PushesInput(s)) =>
            /\ getSessionRedisKeys(s) \in subscriberChannels
            /\ s \in subscriptions
       /\ \A n \in Names :
            (run[s].onOutput /\ run[s].input > 0
               /\ wrap[n].input = run[s].input) =>
              getSessionRedisKeys(s) \in subscriberChannels]_vars

\* A wrapper has taken the input record of a run call with an output callback.
C11_Witness ==
  \E s \in Sessions, n \in Names :
    /\ run[s].onOutput
    /\ InputPushed(s)
    /\ wrap[n].input = run[s].input
    /\ getSessionRedisKeys(s) \in subscriberChannels

\* C12: once a run call that registered an output subscription has returned
\* or thrown, on whatever path, the subscription entry of its session, with
\* its callback, is no longer held by the broker client.
C12_SubscriptionRemovedOnExit ==
  \A s \in Sessions :
    (run[s].pc = "idle" /\ runRes[s].kind \in {"returned", "threw"}
       /\ runRes[s].onOutput) =>
      s \notin subscriptions

\* The wrapper of container n has started and has taken no input record yet.
NoInputTakenYet(n) == wrap[n].pc = "wait" /\ wrap[n].input = 0

\* C13: a redirect interrupt that was queued while no wrapper listened is not
\* lost: once a wrapper has started and until it takes its first input
\* record, the prompt of every redirect its startup drain took is in its input
\* list, with nothing but redirect prompts before it.
C13_QueuedRedirectInjectedAtHead ==
  \A n \in Names :
    NoInputTakenYet(n) =>
      LET list == brokerInput[PublisherKey(SessionIdOf(n))]
      IN \A i \in 1..Len(wrap[n].drained) :
           wrap[n].drained[i].type = "redirect" =>
             \E j \in 1..Len(list) :
               /\ list[j] = InterruptPrompt(wrap[n].drained[i].message)
               /\ \A k \in 1..(j - 1) : list[k] < 0

\* C14: registry mutations whose read-modify-write overlap are serialized:
\* the document a mutation writes is the one its change makes of the
\* document that was on disk just before its write, so that no mutation
\* written in between is lost.
C14_NoLostRegistryMutation ==
  \A p \in RegProcs :
    regOp[p].pc = "done" =>
      regOp[p].wrote =
        ApplyMutation(regOp[p].mutation, regOp[p].previous, regOp[p].time)

\* The mutation of caller p has been written over the very document it read.
WroteWhatItRead(p) ==
  regOp[p].pc = "done" /\ regOp[p].snapshot = regOp[p].previous

\* The positions of `entries` whose container name is in R.
PositionsIn(entries, R) ==
  {i \in 1..Len(entries) : entries[i].containerName \in R}

\* C19: syncWithDocker(R) leaves the registry with exactly the previous
\* entries whose containerName is in R, each unchanged and in their order,
\* returns exactly the names of the entries it removed, and applied a second
\* time with the same R removes nothing.
C19_SyncWithDockerKeepsExisting ==
  \A p \in RegProcs :
    (WroteWhatItRead(p) /\ regOp[p].mutation.kind = "syncWithDocker") =>
      LET R == regOp[p].mutation.names
          before == regOp[p].previous
          after == regOp[p].wrote
      IN /\ Len(after) = Cardinality(PositionsIn(before, R))
         /\ \A i \in 1..Len(after) : after[i].containerName \in R
         /\ \A i \in PositionsIn(before, R) :
              after[Cardinality({j \in PositionsIn(before, R) : j <= i})]
                = before[i]
         /\ Len(regOp[p].returned)
              = Cardinality((1..Len(before)) \ PositionsIn(before, R))
         /\ \A i \in (1..Len(before)) \ PositionsIn(before, R) :
              \E k \in 1..Len(regOp[p].returned) :
                regOp[p].returned[k] = before[i].containerName
         /\ syncWithDocker(after, R).removed = <<>>
         /\ syncWithDocker(after, R).entries = after

\* syncWithDocker has removed one entry of a document and kept another.
C19_Witness ==
  \E p \in RegProcs :
    /\ WroteWhatItRead(p)
    /\ regOp[p].mutation.kind = "syncWithDocker"
    /\ Len(regOp[p].returned) = 1
    /\ Len(regOp[p].wrote) = 1

\* C20: assignContainerToSession(name, session, agent) followed by
\* unassignContainer(name), whatever heartbeat updates of that name were
\* written in between, leaves the entry of that name with sessionKey null,
\* status idle, turnCount 0, no claudeSessionId and no agentId, and every
\* other entry as it was before the assignment.
C20_AssignThenUnassignRestores ==
  \A n \in RegNames :
    regHist[n].stage = "unassigned" =>
      LET i == FindIndex(registry, n)
          before == regHist[n].before
      IN /\ i > 0
         /\ registry[i].sessionKey = Null
         /\ registry[i].status = "idle"
         /\ registry[i].turnCount = 0
         /\ registry[i].claudeSessionId = Undefined
         /\ registry[i].agentId = Undefined
         /\ Len(registry) = Len(before)
         /\ \A j \in 1..Len(registry) : j # i => registry[j] = before[j]

\* A container has been assigned, has had a heartbeat update that set its
\* turn count, and has been unassigned, next to another entry.
C20_Witness ==
  \E n \in RegNames :
    /\ regHist[n].stage = "unassigned"
    /\ regHist[n].beats > 0
    /\ Len(registry) = 2
    /\ \E p \in RegProcs :
         /\ regOp[p].mutation.kind = "updateContainerHeartbeat"
         /\ regOp[p].mutation.name = n
         /\ regOp[p].mutation.turnCount = 1
         /\ regOp[p].pc = "done"

\* C15: when a registry write fails during getContainer or releaseContainer,
\* the call throws and containers, sessionToContainer and warmPool are what
\* they were when the call was made.
C15_FailedWriteLeavesStateUnchanged ==
  \A s \in Sessions :
    fault[s].kind # "none" =>
      /\ fault[s].after = fault[s].before
      /\ fault[s].kind = "getContainer" => gcRes[s].kind = "errRegistry"

\* The health tick ends its handling of the first container of its list.
HealthRemoved == health.pc = "unregister" /\ health' # health
HealthMarked == health.pc = "mark" /\ health' # health

\* C16: when the health tick has handled a stale container, either the
\* runtime did not have it running and it is gone from containers, warmPool,
\* sessionToContainer and the registry, or it was running and its registry
\* status is failed; in both cases no session key maps to it.
C16_HealthTickSeversContainer ==
  [][LET name == health.list[1].containerName
     IN /\ HealthRemoved =>
             /\ AbsentEverywhere(state', registry', name)
             /\ docker'[name] = "absent"
        /\ HealthMarked =>
             /\ HasEntry(registry', name)
             /\ registry'[FindIndex(registry', name)].status = "failed"
             /\ name \notin Range(state'.sessionToContainer)]_vars

\* A health tick has ended after it marked a running container that was
\* assigned to a session as failed.
C16_Witness ==
  /\ health.pc = "idle"
  /\ \E i \in 1..Len(registry) :
       /\ registry[i].status = "failed"
       /\ registry[i].sessionKey # Null
       /\ docker[registry[i].containerName] = "running"
       /\ registry[i].containerName \in DOMAIN state.containers
       /\ registry[i].containerName \notin Range(state.sessionToContainer)

\* C18: a container whose configHash differs from the fingerprint of the
\* current configuration is neither the container of a session, which
\* getContainer would return, nor kept in the warm pool.
C18_NoDriftedContainerServed ==
  \A name \in DOMAIN state.containers :
    (name \in state.warmPool \/ name \in Range(state.sessionToContainer)) =>
      state.containers[name].configHash = generateConfigHash(config)

\* The warm-key supply of a run is used up while a top-up still wants one.
WarmKeysExhausted == nextWarm = MaxWarmKeys

\* The containers the pool manager holds outside its warm pool.
NonWarm == DOMAIN state.containers \ state.warmPool

CapOne == config.pool.minWarm = 0 /\ config.pool.maxTotal = 1

\* Session s holds a container: the session map names it and the registry
\* records it.
HeldBy(s) ==
  /\ MapHas(state.sessionToContainer, s)
  /\ HasEntry(registry, state.sessionToContainer[s])

\* The step that ends the getContainer call of session s.
GetContainerReturns(s) == gc[s].pc # "idle" /\ gc'[s].pc = "idle"

\* The registry holds maxPerAgent entries of the agent of s's call.
AgentCapReached(s) ==
  Len(listContainersByAgent(registry,
        IF gc[s].agentId = Undefined THEN "" ELSE gc[s].agentId))
    >= config.pool.maxPerAgent

WarmEqualsTotal == config.pool.minWarm = config.pool.maxTotal

\* The step of the pool manager that removes a container from the runtime.
Destroys(name) == docker[name] # "absent" /\ docker'[name] = "absent"

IdleRuleDestroys ==
  /\ MaintStop
  /\ maint.phase = "idle"
  /\ maint.list[1].status = "idle"
  /\ now - maint.list[1].lastHeartbeat > config.timeouts.idleMs

FreshStartReturns ==
  /\ starter.pc # "idle"
  /\ starter'.pc = "idle"
  /\ starter.dockerNames = {}
  /\ registry = <<>>

\* C23: after start() with an empty registry and no runtime containers, once
\* the initial warm-pool top-up has completed, getStats() reports total = 0,
\* active = 0 and warm = minWarm.
C23_FreshStartStats ==
  [][FreshStartReturns =>
       /\ getStats(state').total = 0
       /\ getStats(state').active = 0
       /\ getStats(state').warm = config.pool.minWarm]_vars

\* C23, amended: after such a start(), getStats() reports total = minWarm,
\* active = 0 and warm = minWarm: total counts the warm containers too.
C23_FreshStartStatsCountWarm ==
  [][FreshStartReturns =>
       /\ getStats(state').total = config.pool.minWarm
       /\ getStats(state').active = 0
       /\ getStats(state').warm = config.pool.minWarm]_vars

\* start() was the only operation, minWarm is 1 and the top-up has ended with
\* one container, a warm one.
C23_Witness ==
  /\ AllIdle
  /\ isRunning
  /\ opsLeft = MaxOps - 1
  /\ config.pool.minWarm = 1
  /\ getStats(state).total = 1
  /\ getStats(state).warm = 1
  /\ getStats(state).active = 0

\* What a fresh StreamParser does with the characters fed so far, in one call.
OneCall == feed(FreshParser, SubSeq(stream, 1, fed))

\* C24: a StreamParser fed a string in chunks, at any split points, has
\* emitted over its calls together the sequence of records that a fresh
\* StreamParser emits when fed the string in one call, and holds the same
\* pending buffer.
C24_ChunkingDoesNotMatter ==
  resets = 0 =>
    /\ emitted = OneCall.results
    /\ parser.buffer = OneCall.parser.buffer

\* A stream fed in two chunks, split inside a record, has given its record.
C24_Witness ==
  /\ resets = 0
  /\ chunks = 2
  /\ fed = Len(stream)
  /\ Len(emitted) = 1
  /\ stream[1] = "{"
  /\ stream[Len(stream)] = "}"

\* The decoded records of a composed stream, in the stream's order.
RECURSIVE Expected(_)
Expected(ps) ==
  IF ps = <<>> THEN <<>>
  ELSE IF ps[1].kind = "record"
  THEN <<JSONparse(ps[1].text).value>> \o Expected(Tail(ps))
  ELSE Expected(Tail(ps))

\* A composed stream has been fed whole to a parser that was never reset.
ComposedStreamFed == pieces # <<>> /\ resets = 0 /\ fed = Len(stream)

\* C25: a stream that is n valid JSON object records with noise before the
\* first and between them, fed to a StreamParser under any chunking, has made
\* it emit exactly those n records, each once, in the stream's order; string
\* values and noise may hold brace characters.
C25_ExactlyTheRecordsInOrder ==
  ComposedStreamFed => emitted = Expected(pieces)

\* Counting braces alone delimits the record: the count returns to 0 at the
\* record's last character and not before.
DelimitedByBraces(text) ==
  /\ CountBraces(text, 0, 0).foundComplete
  /\ CountBraces(text, 0, 0).i = Len(text) - 1

\* The opening braces of the text, from position i on, that are still open
\* at its end, when depth are open before position i; a closing brace with
\* nothing open counts for nothing.
RECURSIVE OpenAtEnd(_, _, _)
OpenAtEnd(text, i, depth) ==
  IF i > Len(text) THEN depth
  ELSE OpenAtEnd(text, i + 1,
                 IF text[i] = "{" THEN depth + 1
                 ELSE IF text[i] = "}" /\ depth > 0 THEN depth - 1 ELSE depth)

\* The noise leaves no brace open (and, being noise, holds no record).
LeavesNothingOpen(text) == OpenAtEnd(text, 1, 0) = 0

\* The pieces of the stream for which brace counting finds the records.
BraceCountingSuffices ==
  \A i \in 1..Len(pieces) :
    IF pieces[i].kind = "record" THEN DelimitedByBraces(pieces[i].text)
    ELSE LeavesNothingOpen(pieces[i].text)

\* C25, amended: such a stream makes the parser emit exactly its n records,
\* each once, in order, under any chunking, provided that the braces inside
\* each record balance only at its last character (no brace characters in
\* string values) and that every opening brace in the noise is closed within
\* the same stretch of noise.
C25_RecordsInOrderWhenBracesDelimit ==
  (ComposedStreamFed /\ BraceCountingSuffices) => emitted = Expected(pieces)

\* Two different records, a closing brace before the first and a
\* brace-balanced slice that is no JSON between them, fed in three chunks or
\* more: both records have been emitted.
C25_Witness ==
  /\ ComposedStreamFed
  /\ BraceCountingSuffices
  /\ chunks >= 3
  /\ Len(pieces) = 4
  /\ pieces[1].text = <<"}">>
  /\ pieces[3].text = <<"{", "1", "}">>
  /\ Len(emitted) = 2
  /\ emitted[1] # emitted[2]

\* The stream's first opening brace (0-based) and the scan that starts there.
FirstOpen == indexOf(stream, "{")
FirstScan == CountBraces(stream, FirstOpen, 0)

\* The stream's first brace-balanced slice exists and fails to decode.
FirstSliceFails ==
  /\ FirstOpen >= 0
  /\ FirstScan.foundComplete
  /\ ~JSONparse(SubSeq(stream, FirstOpen + 1, FirstScan.i + 1)).ok

\* What a fresh StreamParser does, in one call, with the characters fed so
\* far that follow the first slice.
AfterFirstSlice == feed(FreshParser, SubSeq(stream, FirstScan.i + 2, fed))

RecordOpen(p) ==
  /\ p.inJson
  /\ p.braceCount > 0
  /\ p.buffer # <<>>
  /\ p.buffer[1] = "{"

\* No opening brace among the characters fed after the first j.
OpenerFreeAfter(j) == \A i \in (j + 1)..fed : stream[i] # "{"

\* C27: after every feed, hasPending() is true exactly when the buffer holds
\* an opened and not yet closed record; it is false when the characters fed
\* since the parser last held nothing (a record closed, or nothing was open)
\* hold no opening brace; reset() makes hasPending() false and puts the
\* parser, whatever state it was in, where a fresh parser is, so that what
\* it is fed afterwards is parsed as a fresh parser parses it.
C27_PendingIffRecordOpen ==
  /\ hasPending(parser) <=> RecordOpen(parser)
  /\ \A j \in 0..fed :
       (/\ OpenerFreeAfter(j)
        /\ feed(FreshParser, SubSeq(stream, 1, j)).parser.buffer = <<>>)
         => ~hasPending(parser)
  /\ resets > 0 =>
       /\ fed = 0 => ~hasPending(parser) /\ parser = FreshParser
       /\ emitted = OneCall.results
       /\ parser = OneCall.parser

\* A parser that was reset has been fed, one character per call, one byte
\* of garbage and then a valid record: it has emitted the record and has
\* nothing pending.
C27_Witness ==
  /\ resets = 1
  /\ pieces = <<Piece("noise", <<"1">>),
                Piece("record", <<"{", "\"", "1", "\"", ":", "1", "}">>)>>
  /\ fed = Len(stream)
  /\ chunks = Len(stream)
  /\ emitted = Expected(pieces)
  /\ ~hasPending(parser)

\* The records a wrapper published on a broker key: the positions of its
\* stream's messages that are not "result" messages.
Published(key) == {i \in 1..Len(streamed[key]) : streamed[key][i] # "result"}

\* C28: within one session, the runner's output callback is invoked for output
\* records in the order the wrapper published them, which is the order its
\* parser emitted them, and for no record twice: the records a session's
\* callback was invoked with are records published on the session's key, at
\* strictly increasing positions of the wrapper's stream.
C28_OutputDeliveredInOrderOnce ==
  \A s \in Sessions :
    LET d == delivered[s]
    IN /\ \A i \in 1..Len(d) : d[i] \in Published(getSessionRedisKeys(s))
       /\ \A i, j \in 1..Len(d) : i < j => d[i] < d[j]

\* Both records of a stream that holds two output records have been delivered.
C28_Witness ==
  \E s \in Sessions :
    /\ Len(delivered[s]) = MaxOutputs
    /\ Published(getSessionRedisKeys(s)) = 1..MaxOutputs

\* C29: initialization takes effect once, also when initialize calls
\* overlap: at most one pair of broker connections is open, at most one
\* health interval and one maintenance interval are set, and once stop or
\* shutdown has run (the pool manager is not running) no interval is set.
C29_InitializationTakesEffectOnce ==
  /\ Cardinality(redis.live) <= 2
  /\ Cardinality(intervals.health) <= 1
  /\ Cardinality(intervals.maintenance) <= 1
  /\ ~isRunning => intervals.health \cup intervals.maintenance = {}

\* C30: stop() cancels the health and maintenance tickers and itself destroys
\* or unassigns no container: the step of stop leaves containers,
\* sessionToContainer, warmPool, the registry and the runtime's containers as
\* they were and ends the running state, no health or maintenance tick starts
\* while the pool manager is not running, and stop is no step of a pool
\* manager that is not running.
C30_StopPreservesContainers ==
  [][/\ Stop => /\ state' = state
                /\ registry' = registry
                /\ docker' = docker
                /\ ~isRunning'
     /\ ~isRunning => ~(Stop \/ HealthStart \/ MaintStart \/ MaintTick)]_vars

\* The pool manager has been stopped while it tracked an assigned container
\* and a warm one.
C30_Witness ==
  /\ ~isRunning
  /\ state.warmPool # {}
  /\ state.sessionToContainer # <<>>
  /\ registry # <<>>

\* The containers the runtime runs and the names the registry holds.
RunningNames(d) == {n \in Names : d[n] = "running"}
RegistryNames(r) == {r[i].containerName : i \in 1..Len(r)}

\* C31: after shutdown() has returned the manager tracks no container, and
\* work that was in flight when shutdown was called creates and registers no
\* container afterwards.
C31_NothingTrackedOrCreatedAfterShutdown ==
  [][/\ shut'.pc = "returned" => state' = EmptyState
     /\ shut.pc = "returned" =>
          /\ RunningNames(docker') \subseteq RunningNames(docker)
          /\ RegistryNames(registry') \subseteq RegistryNames(registry)]_vars

\* C32: for each session, the host and the wrapper of the session's container
\* address the same broker keys: the input queue, the output channel, the
\* state key and the result key of the host are those of the wrapper.
C32_HostAndWrapperKeysAgree ==
  \A s \in DOMAIN state.sessionToContainer :
    LET name == state.sessionToContainer[s]
    IN wrap[name].pc # "off" => HostKeys(s) = WrapperKeys(SessionIdOf(name))

\* C33: on start, reconciliation removes disagreement in both directions:
\* when syncState has rebuilt the maps, the names of the registry, the names
\* of the in-memory containers map and the runtime's managed containers are
\* the same set.
C33_StartReconcilesBothWays ==
  [][StartLoad => /\ RegistryNames(registry') = DOMAIN state'.containers
                  /\ RegistryNames(registry') = {n \in Names : docker'[n] # "absent"}]_vars

\* C34: getContainer returns the container held in the in-memory session map
\* only if its runtime state is running: a call that returns at once with the
\* mapped container finds that container running.
C34_MappedContainerReturnedOnlyIfRunning ==
  [][\A s \in Sessions, a \in AgentIds \cup {Undefined} :
       GetContainerCall(s, a) /\ gcRes'[s].kind = "assigned"
         => docker[gcRes'[s].containerName] = "running"]_vars

\* The registry holds maxPerAgent entries with the agent id of s's call.
AgentHoldsCap(s) ==
  /\ gc[s].agentId # Undefined
  /\ Cardinality({i \in 1..Len(registry) : registry[i].agentId = gc[s].agentId})
       >= config.pool.maxPerAgent

\* The registry holds maxTotal entries.
TotalHoldsCap == Len(registry) >= config.pool.maxTotal

CapacityErrors == {"errMaxPerAgent", "errMaxTotal"}

\* C35: operations running one at a time, a getContainer call that found no
\* existing container of its session (it does not return from the in-memory
\* map or from the registry lookup) and that runs while the registry holds
\* maxTotal entries, or maxPerAgent entries of its agent id, ends with a
\* capacity error and its last step leaves the registry, the runtime and the
\* in-memory maps as they were; so it does not end by assigning a warm
\* container or by registering a new one.
C35_CapacityErrorBeforeWarmOrCreate ==
  [][\A s \in Sessions :
       (/\ GetContainerReturns(s)
        /\ gc[s].pc # "inspect"
        /\ AgentHoldsCap(s) \/ TotalHoldsCap)
         => /\ gcRes'[s].kind \in CapacityErrors
            /\ registry' = registry
            /\ docker' = docker
            /\ state' = state]_vars

\* A call has failed on the total cap while the registry held a warm
\* container it could have been assigned.
C35_Witness ==
  \E s \in Sessions :
    /\ gc[s].pc = "idle"
    /\ gcRes[s].kind = "errMaxTotal"
    /\ Len(listWarmContainers(registry)) > 0
    /\ TotalHoldsCap

\* The positions of the registry entries with status idle whose last
\* heartbeat is older than idleMs.
IdlePast ==
  {i \in 1..Len(registry) :
     /\ registry[i].status = "idle"
     /\ now - registry[i].lastHeartbeat > config.timeouts.idleMs}

\* How many of them come before entry i, oldest heartbeat first.
OlderIdle(i) ==
  Cardinality({j \in IdlePast :
     \/ registry[j].lastHeartbeat < registry[i].lastHeartbeat
     \/ registry[j].lastHeartbeat = registry[i].lastHeartbeat /\ j < i})

\* The idle entries a maintenance tick does not keep.
IdleNotKept ==
  {registry[i].containerName : i \in
     {j \in IdlePast :
        OlderIdle(j) >= Max(0, config.pool.minWarm - Cardinality(state.warmPool))}}

\* The entries older than maxAgeMs.
PastMaxAge ==
  {registry[i].containerName : i \in
     {j \in 1..Len(registry) : now - registry[j].createdAt > config.timeouts.maxAgeMs}}

\* The names of the list the tick goes on to destroy, when it does.
MaintTakes ==
  IF maint'.pc = "stop"
  THEN {maint'.list[i].containerName : i \in 1..Len(maint'.list)} ELSE {}

C37_HealthyIffFreshRecord ==
  [][\A s \in Sessions :
       (CheckContainerCall(s) /\ monitorClient) =>
         LET hash == stateHash[s]
             fresh == /\ hash.last_heartbeat # NoBeat
                      /\ now - hash.last_heartbeat < 3 * config.timeouts.healthIntervalMs
         IN /\ checked'[s].healthy <=>
                 (hash # NoHash /\ hash.status \in {"idle", "running"} /\ fresh)
            /\ (hash = NoHash \/ hash.last_heartbeat = NoBeat) =>
                 (~checked'[s].healthy /\ checked'[s].isStale)]_vars

\* The container the pool manager has mapped session s to, which was created
\* for s, runs and has published a heartbeat this very millisecond.
Heartbeating(s) ==
  /\ s \in DOMAIN state.sessionToContainer
  /\ state.sessionToContainer[s] = generateContainerName(s)
  /\ docker[generateContainerName(s)] = "running"
  /\ stateHash[s].last_heartbeat = now

\* C38: a container that is assigned to a session and whose wrapper keeps
\* publishing heartbeats is not among the containers a health tick takes as
\* stale, nor among the idle containers a maintenance tick destroys.
C38_HeartbeatingContainerIsSpared ==
  [][\A s \in Sessions :
       Heartbeating(s) =>
         /\ (health.pc = "idle" /\ health'.pc # "idle") =>
              \A i \in 1..Len(health'.list) :
                health'.list[i].containerName # generateContainerName(s)
         /\ (maint.pc = "idle" /\ maint'.pc = "stop" /\ maint'.phase = "idle") =>
              \A i \in 1..Len(maint'.list) :
                maint'.list[i].containerName # generateContainerName(s)]_vars

\* The registry entry of container `name` carries session s and the status
\* failed, which only the health tick sets.
MarkedFailedFor(s, name) ==
  \E i \in 1..Len(registry) :
    /\ registry[i].containerName = name
    /\ registry[i].sessionKey = s
    /\ registry[i].status = "failed"

\* C39: once the health tick has marked a session's container failed and
\* severed its session mapping, a getContainer for that session does not
\* return that container.
C39_FailedContainerNotReturned ==
  [][\A s \in Sessions :
       (GetContainerReturns(s) /\ gcRes'[s].containerName # Null)
         => ~MarkedFailedFor(s, gcRes'[s].containerName)]_vars

\* C40: when two run calls with output callbacks overlap on one session key,
\* every output record of the session that the host handles while a call is
\* subscribed and has not ended is passed to that call's callback.
C40_OverlappingCallbacksBothReceive ==
  [][\A c \in RunCalls :
       (/\ pair[c].pc = "running"
        /\ inbound # <<>>
        /\ inbound' = Tail(inbound)
        /\ Head(inbound).channel = getSessionRedisKeys(PairSession))
         => pair'[c].got = Append(pair[c].got, Head(inbound).payload.data)]_vars

====
